---- MODULE Spec2Model ----
(***************************************************************************)
(* Sustainable-business dashboard: the paginated, filtered listing         *)
(* (utils/data_processor.py load_fashion_data and its caller in app.py),   *)
(* the radius search (get_nearby_businesses, get_cached_nearby), the       *)
(* st.cache_data caches of the page script, the interaction tracker and    *)
(* the recommendations built on it (utils/recommendations.py), and the     *)
(* registration of users (utils/auth.py).                                  *)
(*                                                                         *)
(* The specifications share the variables:                                 *)
(*   SpecList      one filter configuration and page size, drawn at Init,  *)
(*                 and any sequence of page loads against one store;       *)
(*   SpecGeo       one working set, drawn at Init, and any sequence of     *)
(*                 radius searches over it (SpecGeoDirty: a working set    *)
(*                 with a latitude geopy rejects);                         *)
(*   SpecCache     script runs and clock ticks over the cached loads;      *)
(*   SpecTrack     calls of track_user_interaction under store faults;     *)
(*   SpecSession   logins, logouts and page renders of one session         *)
(*                 (FairSpecSession: the script keeps running);            *)
(*   SpecRec       one interactions table and request time, drawn at Init, *)
(*                 and one rendering of the recommendations;               *)
(*   SpecAuth      register_user calls of two sessions, interleaved;       *)
(*   SpecRetry     one call of a function under retry_on_db_error          *)
(*                 (FairSpecRetry: the wrapper keeps stepping);            *)
(*   SpecBoot      the first script runs of two sessions: init_database    *)
(*                 and initialize_achievements under faults;               *)
(*   SpecAccount   logins, logouts, category selections, API keys and      *)
(*                 the recommendations tab of one browser session.         *)
(***************************************************************************)
EXTENDS Integers, Sequences, FiniteSets, TLC

\* ------------------------------------------------------------------ bounds

\* Rows of the business table (the store holds any prefix of the seed rows).
NumBusinesses == 3
\* Page numbers requested: 0..MaxPage (0 is the invalid page "< 1").
MaxPage == 3
\* Reference points lie on mile markers 0..MaxCoord; radii are 0..MaxRadius miles.
MaxCoord == 1
MaxRadius == 2

\* ------------------------------------------------------------ small helpers

Min(a, b) == IF a < b THEN a ELSE b
Max(a, b) == IF a > b THEN a ELSE b
Abs(a) == IF a < 0 THEN -a ELSE a
Pick(t, i) == t[((i - 1) % Len(t)) + 1]
Range(s) == {s[i] : i \in DOMAIN s}
NoDuplicates(s) == \A i, j \in DOMAIN s : s[i] = s[j] => i = j

RECURSIVE Concat(_)
Concat(ss) == IF ss = <<>> THEN <<>> ELSE Head(ss) \o Concat(Tail(ss))

RECURSIVE SumLen(_)
SumLen(ss) == IF ss = <<>> THEN 0 ELSE Len(Head(ss)) + SumLen(Tail(ss))

\* All orderings of a finite set, as sequences without repetition.
RECURSIVE Orders(_)
Orders(S) ==
    IF S = {} THEN {<<>>}
    ELSE UNION {{<<x>> \o o : o \in Orders(S \ {x})} : x \in S}

\* --------------------------------------------------------- the Entity Store

\* Column values of the ingested rows; brand names are character sequences so
\* that pattern matching can be computed.
SeedBrand == << <<"E", "c", "o">>, <<"a", "b">>, <<"B", "e", "e">>,
                <<"a", "_", "c">>, <<"C", "o", "c", "o">> >>
SeedCategory == <<"Apparel", "Footwear", "Apparel", "Footwear", "Apparel">>
SeedState == <<"NY", "NY", "CA", "NY", "CA">>
SeedScore == <<90, 0, 70, 95, 40>>
SeedLatitude == <<0, 2, 1, 2, 0>>

\* One row of the businesses table (models/database.py Business); the id is the
\* auto-incremented primary key, brand_name is unique.
BusinessRow(i) ==
    [id |-> i,
     brand_name |-> Pick(SeedBrand, i),
     category |-> Pick(SeedCategory, i),
     state |-> Pick(SeedState, i),
     sustainability_score |-> Pick(SeedScore, i),
     latitude |-> Pick(SeedLatitude, i),
     longitude |-> 0]

\* The table after bulk ingestion of the first n rows.
BusinessTable(n) == [i \in 1..n |-> BusinessRow(i)]

\* ------------------------------------------------------- filter configuration

\* An option of the filters dict: absent, or present with a value.  A score
\* bound is an int or a str (the dict is untyped).
AbsentStr == [present |-> FALSE, val |-> ""]
AbsentSearch == [present |-> FALSE, val |-> <<>>]
AbsentBound == [present |-> FALSE, kind |-> "int", num |-> 0, str |-> ""]
IntBound(n) == [present |-> TRUE, kind |-> "int", num |-> n, str |-> ""]
StrBound(s) == [present |-> TRUE, kind |-> "str", num |-> 0, str |-> s]
Str(s) == [present |-> TRUE, val |-> s]

CategoryOptions == {AbsentStr, Str("Apparel")}
StateOptions == {AbsentStr, Str("NY")}
BoundOptions == {AbsentBound, IntBound(0), IntBound(70), StrBound(""), StrBound("abc")}
SearchOptions == {AbsentSearch, Str(<<"c", "O">>), Str(<<"_">>)}

FilterConfigs ==
    [category : CategoryOptions, state : StateOptions,
     min_score : BoundOptions, max_score : BoundOptions,
     search : SearchOptions]

NoFilters ==
    [category |-> AbsentStr, state |-> AbsentStr, min_score |-> AbsentBound,
     max_score |-> AbsentBound, search |-> AbsentSearch]

PageSizes == {0, 1, 2}

\* Python truth value of filters.get(key): a missing key gives None.
TruthyStr(o) == o.present /\ o.val # ""
TruthySearch(o) == o.present /\ o.val # <<>>
TruthyBound(o) ==
    o.present /\ (IF o.kind = "int" THEN o.num # 0 ELSE o.str # "")

\* The query after the "Apply filters" block: an option stays in the query
\* exactly when its filters.get(...) is truthy.
CompileFilters(f) ==
    [category |-> IF TruthyStr(f.category) THEN f.category ELSE AbsentStr,
     state |-> IF TruthyStr(f.state) THEN f.state ELSE AbsentStr,
     min_score |-> IF TruthyBound(f.min_score) THEN f.min_score ELSE AbsentBound,
     max_score |-> IF TruthyBound(f.max_score) THEN f.max_score ELSE AbsentBound,
     search |-> IF TruthySearch(f.search) THEN f.search ELSE AbsentSearch]

\* ----------------------------------------------------------- ILIKE matching

UpperToLower == ("A" :> "a") @@ ("B" :> "b") @@ ("C" :> "c") @@ ("E" :> "e") @@ ("O" :> "o")
Lower(c) == IF c \in DOMAIN UpperToLower THEN UpperToLower[c] ELSE c
LowerSeq(s) == [i \in DOMAIN s |-> Lower(s[i])]

\* SQL LIKE: % matches any run of characters, _ any single character.
RECURSIVE LikeMatch(_, _)
LikeMatch(p, s) ==
    IF p = <<>> THEN s = <<>>
    ELSE IF Head(p) = "%"
         THEN LikeMatch(Tail(p), s) \/ (s # <<>> /\ LikeMatch(p, Tail(s)))
         ELSE /\ s # <<>>
              /\ (Head(p) = "_" \/ Head(p) = Head(s))
              /\ LikeMatch(Tail(p), Tail(s))

\* Business.brand_name.ilike(f"%{search}%"): the search text is placed in the
\* pattern as it is, so its own % and _ act as wildcards.
ILike(brand_name, search) ==
    LikeMatch(<<"%">> \o LowerSeq(search) \o <<"%">>, LowerSeq(brand_name))

\* --------------------------------------------------------------- the query

\* A truthy str bound reaches the store as a str parameter compared with a
\* Float column: the store rejects the statement.
StoreRejects(q) ==
    \/ (q.min_score.present /\ q.min_score.kind = "str")
    \/ (q.max_score.present /\ q.max_score.kind = "str")

\* The WHERE clause of the compiled query, on one row.
RowMatches(row, q) ==
    /\ q.category.present => row.category = q.category.val
    /\ q.state.present => row.state = q.state.val
    /\ q.min_score.present => row.sustainability_score >= q.min_score.num
    /\ q.max_score.present => row.sustainability_score <= q.max_score.num
    /\ q.search.present => ILike(row.brand_name, q.search.val)

MatchingIds(table, q) == {i \in DOMAIN table : RowMatches(table[i], q)}

\* query.count()
QueryCount(table, q) == Cardinality(MatchingIds(table, q))

\* Mutant: an offset past the end is pulled back to the last rows.
OffsetLimitClamped(order, o, l) ==
    SubSeq(order, Min(o, Max(Len(order) - l, 0)) + 1,
           Min(Min(o, Max(Len(order) - l, 0)) + l, Len(order)))

\* query.offset(o).limit(l).all() on the rows in the order the store produced
\* them for this statement.
OffsetLimit(order, o, l) == SubSeq(order, o + 1, Min(o + l, Len(order)))

\* Mutant: the page number taken as zero-based.
PageOffsetZeroBased(pg, pp) == pg * pp

\* (page - 1) * per_page
PageOffset(pg, pp) == (pg - 1) * pp

NoQuery == [issued |-> FALSE, offset |-> 0, limit |-> 0, where |-> NoFilters]

\* load_fashion_data(page, per_page, filters); order is the row order the
\* store chose for the paginated statement (the query has no ORDER BY).  Any
\* exception inside is re-raised as a plain Exception("Error loading data"),
\* which is no SQLAlchemyError, so the retry wrapper lets it through at once.
\* The store is PostgreSQL (sslmode connect argument, ARRAY column): it
\* rejects a negative OFFSET and accepts LIMIT 0.
LoadFashionData(table, pg, pp, f, order) ==
    LET q == CompileFilters(f)
        sent == [issued |-> TRUE, offset |-> PageOffset(pg, pp), limit |-> pp, where |-> q]
    IN  IF StoreRejects(q)
        THEN [outcome |-> "Exception", df |-> <<>>, total_count |-> 0,
              query |-> [sent EXCEPT !.offset = 0, !.limit = 0]]
        ELSE IF PageOffset(pg, pp) < 0
        THEN [outcome |-> "Exception", df |-> <<>>, total_count |-> 0, query |-> sent]
        ELSE [outcome |-> "ok",
              df |-> OffsetLimit(order, PageOffset(pg, pp), pp),
              total_count |-> QueryCount(table, q),
              query |-> sent]

\* pages = -(-total_count // per_page)
CeilDiv(a, b) == -((-a) \div b)

\* The page script around the load: try / except Exception turns a failed
\* load, and the ZeroDivisionError of the page count, into the error banner.
PageBanner(r, pp) ==
    IF r.outcome # "ok"
    THEN [banner |-> "error", raised |-> r.outcome, pages |-> 0]
    ELSE IF pp = 0
    THEN [banner |-> "error", raised |-> "ZeroDivisionError", pages |-> 0]
    ELSE IF Len(r.df) = 0
    THEN [banner |-> "warning", raised |-> "none", pages |-> CeilDiv(r.total_count, pp)]
    ELSE [banner |-> "success", raised |-> "none", pages |-> CeilDiv(r.total_count, pp)]

\* ------------------------------------------------------------ radius search

\* radius_km = radius * 1.60934, held here in units of 1e-5 km.
KmE5PerMile == 160934

\* geopy's geodesic(a, b): businesses and reference points sit on the mile
\* markers of a grid, and the distance between two markers is their grid
\* distance in miles; .km is the same length in units of 1e-5 km.
Geodesic(lat1, lon1, lat2, lon2) ==
    [miles |-> Abs(lat1 - lat2) + Abs(lon1 - lon2),
     km |-> (Abs(lat1 - lat2) + Abs(lon1 - lon2)) * KmE5PerMile]

\* A NULL latitude of the table is the float NaN in the data frame; NaN is
\* held here as a number no coordinate takes.
NaN == 999

\* geopy accepts latitudes of -MaxLatitude..MaxLatitude degrees.
MaxLatitude == 90

\* geodesic(a, b) builds a Point of each argument, and Point raises ValueError
\* for a coordinate that is not finite and for a latitude out of range.
PointRejected(latitude) == latitude = NaN \/ Abs(latitude) > MaxLatitude

\* df.apply(...) calls geodesic on every row: one rejected row raises.
ApplyRaises(df) == \E i \in DOMAIN df.rows : PointRejected(df.rows[i].latitude)

\* The tie rule of the sort the build links in (quicksort is not a stable
\* sort): a fixed, build-dependent function of the input.
SortKinds == {"stable", "reversed"}

\* Insert x into the sequence s, sorted ascending on .distance.
RECURSIVE InsertByDistance(_, _, _)
InsertByDistance(x, s, kind) ==
    IF s = <<>> THEN <<x>>
    ELSE IF \/ x.distance < Head(s).distance
            \/ (x.distance = Head(s).distance /\ kind = "reversed")
         THEN <<x>> \o s
         ELSE <<Head(s)>> \o InsertByDistance(x, Tail(s), kind)

\* Mutant: the result is left in the order of the working set.
SortValuesSkipped(s, kind) == s

\* nearby.sort_values('distance')
RECURSIVE SortValues(_, _)
SortValues(s, kind) ==
    IF s = <<>> THEN <<>>
    ELSE InsertByDistance(s[Len(s)], SortValues(SubSeq(s, 1, Len(s) - 1), kind), kind)

\* The elements of s that satisfy Keep, in their order (boolean-mask indexing).
RECURSIVE SelectSeq2(_, _)
SelectSeq2(s, keep) ==
    IF s = <<>> THEN <<>>
    ELSE (IF Head(keep) THEN <<Head(s)>> ELSE <<>>) \o SelectSeq2(Tail(s), Tail(keep))

\* df['distance'] = df.apply(geodesic(...).miles): the new column.
DistanceColumn(df, lat, lon) ==
    [i \in DOMAIN df.rows |->
        Geodesic(lat, lon, df.rows[i].latitude, df.rows[i].longitude).miles]

\* Mutant: the boundary is left out.
WithinRadiusStrict(d, radius) == d < radius

\* df['distance'] <= radius, on one value of the column.
WithinRadius(d, radius) == d <= radius

\* The rows of the frame with their distance column, as the result rows.
Annotated(rows, dist) == [i \in DOMAIN rows |-> [row |-> rows[i], distance |-> dist[i]]]

\* Mutant: the radius mask is taken from the distance column the frame already
\* carries (the previous search's), before the new column is assigned.
GetNearbyBusinessesStaleMask(df, lat, lon, radius, kind) ==
    IF df.rows = <<>>
    THEN [df |-> df, columns |-> FALSE, nearby |-> <<>>, raised |-> "none"]
    ELSE IF ApplyRaises(df)
    THEN [df |-> df, columns |-> FALSE, nearby |-> <<>>, raised |-> "ValueError"]
    ELSE LET dist == DistanceColumn(df, lat, lon)
             old == IF df.distance = <<>> THEN dist ELSE df.distance
             mask == [i \in DOMAIN old |-> WithinRadius(old[i], radius)]
         IN  [df |-> [rows |-> df.rows, distance |-> dist],
              columns |-> TRUE,
              nearby |-> SortValues(SelectSeq2(Annotated(df.rows, dist), mask), kind),
              raised |-> "none"]

\* get_nearby_businesses(df, lat, lon, radius): the result, and the frame it
\* was given, which it changes in place (the distance column is assigned on
\* df itself).  An empty frame gives pd.DataFrame(), which has no columns.
\* Nothing catches the ValueError of a rejected row: the column is not
\* assigned and the exception leaves the function.
GetNearbyBusinesses(df, lat, lon, radius, kind) ==
    IF df.rows = <<>>
    THEN [df |-> df, columns |-> FALSE, nearby |-> <<>>, raised |-> "none"]
    ELSE IF ApplyRaises(df)
    THEN [df |-> df, columns |-> FALSE, nearby |-> <<>>, raised |-> "ValueError"]
    ELSE LET dist == DistanceColumn(df, lat, lon)
             mask == [i \in DOMAIN dist |-> WithinRadius(dist[i], radius)]
         IN  [df |-> [rows |-> df.rows, distance |-> dist],
              columns |-> TRUE,
              nearby |-> SortValues(SelectSeq2(Annotated(df.rows, dist), mask), kind),
              raised |-> "none"]

\* nearby[nearby['sustainability_score'] >= min_score]
ScoreMask(nearby, min_score) ==
    [i \in DOMAIN nearby |-> nearby[i].row.sustainability_score >= min_score]

\* The body of get_cached_nearby: the search, then the minimum-score quick
\* filter; indexing a frame without columns raises KeyError, and an exception
\* of the search passes through.
GetCachedNearby(df, lat, lon, rad, min_score, kind) ==
    LET g == GetNearbyBusinesses(df, lat, lon, rad, kind)
    IN  IF g.raised # "none"
        THEN [outcome |-> g.raised, df |-> g.df, found |-> <<>>, nearby |-> <<>>]
        ELSE IF min_score > 0 /\ ~g.columns
        THEN [outcome |-> "KeyError", df |-> g.df, found |-> g.nearby, nearby |-> <<>>]
        ELSE [outcome |-> "ok", df |-> g.df, found |-> g.nearby,
              nearby |-> IF min_score > 0
                         THEN SelectSeq2(g.nearby, ScoreMask(g.nearby, min_score))
                         ELSE g.nearby]

QuickFilterScores == {0, 50}

\* ------------------------------------------------------------------- state

VARIABLES
    business,      \* the businesses table
    filters,       \* the filter configuration of the listing
    per_page,      \* the page size of the listing
    page,          \* the page number of the last load (0 before any)
    result,        \* what the last load_fashion_data call returned
    display,       \* what the page script showed for it
    scanned,       \* slices of pages 1..k loaded in a row, k = Len(scanned)
    wdf,           \* the working set given to the radius search (a data frame)
    sort_kind,     \* the tie rule of the build's sort
    search,        \* the last radius search: its arguments and what it returned
    prev,          \* the radius search before it
    now,           \* the clock of the cache, in seconds
    data_cache,    \* the entries of load_cached_data, by key
    top_cache,     \* the entries of get_top_performers, by key
    state_avg_cache, \* the entries of get_state_avg_sustainability, by key
    request,       \* the last listing request: its key and how it was served
    analytics,     \* what the analytics tab showed in the last script run
    authenticated, \* st.session_state.authenticated
    user,          \* st.session_state.user: the id of the user, 0 for None
    last_recommendation_time, \* st.session_state.last_recommendation_time
    pending_interactions,     \* st.session_state.pending_interactions
    interactions,  \* the user_interactions table
    tracked,       \* the last track_user_interaction call and how it ended
    history,       \* what get_user_interaction_history returned last
    recommended,   \* the last rendering of the recommendations tab
    users,         \* the users table
    registration,  \* per browser session, its register_user call and how it ended
    retry,         \* one call of a function wrapped by retry_on_db_error
    boot,          \* per browser session, its one-time initialization and page
    business_id_seq,    \* the serial behind businesses.id
    achievements,       \* the achievements table
    achievement_id_seq, \* the serial behind achievements.id
    ingested,      \* the businesses table when init_database first returned True
    openai_api_key,          \* st.session_state.openai_api_key
    current_recommendations, \* st.session_state.current_recommendations
    rec_cache,     \* the entries of get_cached_recommendations, by key
    rec_tab,       \* what the recommendations tab showed in the last script run
    login,         \* the last login_user call and what it returned
    widgets        \* the category selectbox, and the selections made in it

listVars == <<business, filters, per_page, page, result, display, scanned>>
geoVars == <<wdf, sort_kind, search, prev>>
cacheVars == <<now, data_cache, top_cache, state_avg_cache, request, analytics>>

trackVars == <<authenticated, user, last_recommendation_time, pending_interactions,
               interactions, tracked, history, recommended>>
authVars == <<users, registration>>

retryVars == <<retry>>
bootVars == <<boot, business_id_seq, achievements, achievement_id_seq, ingested>>
acctVars == <<openai_api_key, current_recommendations, rec_cache, rec_tab, login, widgets>>
moreVars == <<retryVars, bootVars, acctVars>>

vars == <<listVars, geoVars, cacheVars, trackVars, authVars, moreVars>>

NoResult == [outcome |-> "none", df |-> <<>>, total_count |-> 0, query |-> NoQuery]
NoDisplay == [banner |-> "none", raised |-> "none", pages |-> 0]
NoSearch ==
    [outcome |-> "none", lat |-> 0, lon |-> 0, rad |-> 0, min_score |-> 0,
     found |-> <<>>, nearby |-> <<>>]
NoFrame == [rows |-> <<>>, distance |-> <<>>]

ListIdle ==
    /\ filters = NoFilters
    /\ per_page = 1
    /\ page = 0
    /\ result = NoResult
    /\ display = NoDisplay
    /\ scanned = <<>>

GeoIdle ==
    /\ wdf = NoFrame
    /\ sort_kind = "stable"
    /\ search = NoSearch
    /\ prev = NoSearch

\* A cache entry slot: empty, or a value with the time it was stored.
NoEntry == [present |-> FALSE, stored_at |-> 0, value |-> NoResult]
NoKey == [filters |-> <<>>, page |-> 0, per_page |-> 0]
NoRequest ==
    [key |-> NoKey, at |-> 0, hit |-> FALSE, invoked |-> 0,
     before |-> [present |-> FALSE, stored_at |-> 0]]
NoAnalytics == [ran |-> FALSE, df |-> <<>>, top_10 |-> <<>>, state_avg |-> {}]

CacheIdle ==
    /\ now = 0
    /\ data_cache = <<>>
    /\ top_cache = <<>>
    /\ state_avg_cache = <<>>
    /\ request = NoRequest
    /\ analytics = NoAnalytics

\* A value of an untyped dict or of a nullable column: a missing key, None, a
\* number or a text.
Absent == [kind |-> "absent", num |-> 0, str |-> ""]
NoneValue == [kind |-> "none", num |-> 0, str |-> ""]
Num(n) == [kind |-> "num", num |-> n, str |-> ""]
Text(t) == [kind |-> "str", num |-> 0, str |-> t]

NoData ==
    [business_id |-> Absent, category |-> Absent, state |-> Absent,
     sustainability_score |-> Absent]
NoTracked ==
    [called |-> FALSE, user_id |-> 0, interaction_type |-> "none", data |-> NoData,
     failure |-> "none", raised |-> "none", error_logged |-> FALSE, before |-> <<>>]
NoHistory ==
    [fetched |-> FALSE, user_id |-> 0, at |-> 0, described |-> <<>>,
     interaction_history |-> <<>>, categories_viewed |-> {},
     category_counts |-> <<>>, states_searched |-> {},
     avg_sustainability_score |-> [sum |-> 0, count |-> 0]]
NoField == [kind |-> "missing", items |-> <<>>]
NoRecommended ==
    [shown |-> FALSE, response |-> "none", business_recommendations |-> NoField,
     sustainability_tips |-> NoField, suggested_categories |-> NoField,
     raised |-> "none"]
\* One browser session's call of register_user: where it stands, its
\* arguments, what it returned and showed, and the users table at the call.
RegSessions == {1, 2}
NoRegistration ==
    [pc |-> "idle", email |-> "", username |-> "", password |-> "",
     returned |-> FALSE, message |-> "none", before |-> <<>>]

TrackIdle ==
    /\ authenticated = FALSE
    /\ user = 0
    /\ last_recommendation_time = "None"
    /\ pending_interactions = <<>>
    /\ interactions = <<>>
    /\ tracked = NoTracked
    /\ history = NoHistory
    /\ recommended = NoRecommended

AuthIdle ==
    /\ users = <<>>
    /\ registration = [s \in RegSessions |-> NoRegistration]

\* A call through the retry wrapper: the wrapped function and the decorator's
\* arguments, the loop counter, what the store did in each invocation (faults)
\* and what each invocation handed to the wrapper (calls), the number of
\* sleeps, and how the call ended.
NoRetry ==
    [func |-> "none", max_retries |-> 0, delay |-> 0, retries |-> 0, pc |-> "idle",
     faults |-> <<>>, calls |-> <<>>, slept |-> 0, outcome |-> "none"]

RetryIdle == retry = NoRetry

\* One browser session's first script run: where the initialization block
\* stands, the fault the store or the file system holds for its
\* init_database call, the next CSV row and the next badge, what
\* init_database returned, an exception that left initialize_achievements,
\* st.session_state.db_initialized, and what the page went on to do and load.
BootSessions == {1, 2}
NoBoot ==
    [pc |-> "start", fault |-> "none", next |-> 0, ach_next |-> 0,
     init_database |-> "none", raised |-> "none", db_initialized |-> FALSE,
     page |-> "none", seen |-> <<>>]
NoIngested == [done |-> FALSE, rows |-> <<>>]

BootIdle ==
    /\ boot = [s \in BootSessions |-> NoBoot]
    /\ business_id_seq = 0
    /\ achievements = <<>>
    /\ achievement_id_seq = 0
    /\ ingested = NoIngested

\* A set of recommendations: the user whose history it was generated from
\* and the category counts of that history.
NoRecommendations == [user_id |-> 0, category_counts |-> <<>>]
NoShown == [kind |-> "none", to |-> 0, value |-> NoRecommendations]
\* A login_user call: whether it returned True; toggle tells one call from
\* the next.
NoLogin == [called |-> FALSE, returned |-> FALSE, toggle |-> FALSE]
\* The category selectbox, and how many times a logged-in user chose a
\* category in it.
NoWidgets == [category_filter |-> "All Categories", selections |-> 0]

AcctIdle ==
    /\ openai_api_key = "None"
    /\ current_recommendations = NoRecommendations
    /\ rec_cache = <<>>
    /\ rec_tab = NoShown
    /\ login = NoLogin
    /\ widgets = NoWidgets

MoreIdle == RetryIdle /\ BootIdle /\ AcctIdle

\* The parts of the state a specification leaves idle.
GeoAside == GeoIdle /\ CacheIdle /\ TrackIdle /\ AuthIdle /\ MoreIdle
ListAside == ListIdle /\ CacheIdle /\ TrackIdle /\ AuthIdle /\ MoreIdle

InitList ==
    /\ \E n \in 0..NumBusinesses : business = BusinessTable(n)
    /\ filters \in FilterConfigs
    /\ per_page \in PageSizes
    /\ page = 0
    /\ result = NoResult
    /\ display = NoDisplay
    /\ scanned = <<>>
    /\ GeoAside

\* One run of the page script for page pg: the store picks a row order for the
\* statement, the result is shown, and a walk through pages 1, 2, ... is
\* extended when pg is the next page of it.
LoadPage(pg) ==
    \E order \in Orders(MatchingIds(business, CompileFilters(filters))) :
        LET r == LoadFashionData(business, pg, per_page, filters, order)
        IN  /\ page' = pg
            /\ result' = r
            /\ display' = PageBanner(r, per_page)
            /\ scanned' = IF r.outcome # "ok" THEN <<>>
                          ELSE IF pg = Len(scanned) + 1 THEN Append(scanned, r.df)
                          ELSE IF pg = 1 THEN <<r.df>>
                          ELSE <<>>
            /\ UNCHANGED <<business, filters, per_page>>
            /\ UNCHANGED <<geoVars, cacheVars, trackVars, authVars, moreVars>>

NextList == \E pg \in 0..MaxPage : LoadPage(pg)

SpecList == InitList /\ [][NextList]_vars

\* The working set is a page of the listing: some of the rows, in the order
\* the store returned them, without a distance column yet.
InitGeo ==
    /\ business = BusinessTable(NumBusinesses)
    /\ ListAside
    /\ \E S \in SUBSET (1..NumBusinesses) : \E o \in Orders(S) :
          wdf = [rows |-> [i \in DOMAIN o |-> business[o[i]]], distance |-> <<>>]
    /\ sort_kind \in SortKinds
    /\ search = NoSearch
    /\ prev = NoSearch

\* The "Find Sustainable Businesses" button with reference point (lat, lon),
\* radius rad and quick filter min_score.
FindNearby(lat, lon, rad, min_score) ==
    LET r == GetCachedNearby(wdf, lat, lon, rad, min_score, sort_kind)
    IN  /\ wdf' = r.df
        /\ search' = [outcome |-> r.outcome, lat |-> lat, lon |-> lon, rad |-> rad,
                      min_score |-> min_score, found |-> r.found, nearby |-> r.nearby]
        /\ prev' = search
        /\ UNCHANGED sort_kind
        /\ UNCHANGED <<listVars, cacheVars, trackVars, authVars, moreVars>>

NextGeo ==
    \E lat \in 0..MaxCoord, rad \in 0..MaxRadius, min_score \in QuickFilterScores :
        FindNearby(lat, 0, rad, min_score)

SpecGeo == InitGeo /\ [][NextGeo]_vars

\* Latitudes a row of the table can hold that geopy rejects: the columns are
\* nullable floats and ingestion stores what the file holds.
RejectedLatitudes == {NaN, MaxLatitude + 1}

\* The table with row d holding latitude lat.
DirtyTable(n, d, lat) ==
    [i \in 1..n |-> IF i = d THEN [BusinessRow(i) EXCEPT !.latitude = lat]
                     ELSE BusinessRow(i)]

\* As InitGeo, over a table one row of which has a rejected latitude.
InitGeoDirty ==
    /\ \E d \in 1..NumBusinesses, lat \in RejectedLatitudes :
          business = DirtyTable(NumBusinesses, d, lat)
    /\ ListAside
    /\ \E S \in SUBSET (1..NumBusinesses) : \E o \in Orders(S) :
          wdf = [rows |-> [i \in DOMAIN o |-> business[o[i]]], distance |-> <<>>]
    /\ sort_kind \in SortKinds
    /\ search = NoSearch
    /\ prev = NoSearch

SpecGeoDirty == InitGeoDirty /\ [][NextGeo]_vars

\* The sort of the page in tab 1 (df.sort_values(sort_column, ascending)), on the
\* sustainability-score column: it reorders the rows of the one page it is given.
DfSorted(df, ascending, kind) ==
    LET keyed == [i \in DOMAIN df |->
                    [row |-> df[i],
                     distance |-> IF ascending THEN business[df[i]].sustainability_score
                                  ELSE -business[df[i]].sustainability_score]]
        sorted == SortValues(keyed, kind)
    IN  [i \in DOMAIN sorted |-> sorted[i].row]

\* ------------------------------------------------------------ cached loads

\* @st.cache_data(ttl=300) of load_cached_data, ttl=600 of get_top_performers.
ListingTTL == 300
TopPerformersTTL == 600
\* The clock advances in steps of TickSeconds, MaxTicks times at most.
TickSeconds == 150
MaxTicks == 2
\* Rows of the business table behind the cached listing.
CachedRows == 2

\* The sidebar: an option enters the filters dict only when its widget is off
\* its default (empty text, "All States", "All Categories", slider at 0 / 100).
SidebarFilters(search_query, state_filter, category_filter, min_score, max_score) ==
    [search |-> IF search_query # <<>> THEN Str(search_query) ELSE AbsentSearch,
     state |-> IF state_filter # "All States" THEN Str(state_filter) ELSE AbsentStr,
     category |-> IF category_filter # "All Categories" THEN Str(category_filter)
                  ELSE AbsentStr,
     min_score |-> IF min_score > 0 THEN IntBound(min_score) ELSE AbsentBound,
     max_score |-> IF max_score < 100 THEN IntBound(max_score) ELSE AbsentBound]

\* One key: value pair as str(filters) prints it.
DictItem(k, o) ==
    [key |-> k,
     kind |-> IF k \in {"min_score", "max_score"} THEN o.kind ELSE "str",
     text |-> IF k \in {"state", "category"} THEN o.val
              ELSE IF k \in {"min_score", "max_score"} THEN o.str ELSE "",
     chars |-> IF k = "search" THEN o.val ELSE <<>>,
     num |-> IF k \in {"min_score", "max_score"} THEN o.num ELSE 0]

\* str(filters): the keys the dict holds, in the order the sidebar inserted
\* them, each with its value as written (letter case kept).
DictStr(f) ==
    (IF f.search.present THEN <<DictItem("search", f.search)>> ELSE <<>>)
    \o (IF f.state.present THEN <<DictItem("state", f.state)>> ELSE <<>>)
    \o (IF f.category.present THEN <<DictItem("category", f.category)>> ELSE <<>>)
    \o (IF f.min_score.present THEN <<DictItem("min_score", f.min_score)>> ELSE <<>>)
    \o (IF f.max_score.present THEN <<DictItem("max_score", f.max_score)>> ELSE <<>>)

\* filter_key = str(filters) + f"_page{page}_perpage{per_page}"
FilterKey(f, pg, pp) == [filters |-> DictStr(f), page |-> pg, per_page |-> pp]

\* Mutant: an entry is still served at the moment its TTL has elapsed.
EntryLiveAtExpiry(cache, key, ttl, t) ==
    key \in DOMAIN cache /\ t <= cache[key].stored_at + ttl

\* st.cache_data lookup: the key has an entry and it was stored less than ttl
\* seconds ago.
EntryLive(cache, key, ttl, t) ==
    key \in DOMAIN cache /\ t < cache[key].stored_at + ttl

\* An entry without ttl never expires.
EntryKept(cache, key) == key \in DOMAIN cache

\* The cache after storing value under key at time t.
CachePut(cache, key, value, t) ==
    [k \in (DOMAIN cache) \cup {key} |->
        IF k = key THEN [present |-> TRUE, stored_at |-> t, value |-> value]
        ELSE cache[k]]

\* Whether the key has an entry, and since when.
EntryStamp(cache, key) ==
    [present |-> key \in DOMAIN cache,
     stored_at |-> IF key \in DOMAIN cache THEN cache[key].stored_at ELSE 0]

\* The key of get_top_performers(df, selected_metric): hash_funcs maps every
\* data frame to None, so the metric alone tells the entries apart.
TopPerformersKey(df, metric) == [df |-> "None", metric |-> metric]

\* The key of get_state_avg_sustainability(): the function takes no argument;
\* the df it reads is a global of the script.
StateAvgKey == "get_state_avg_sustainability"

TopN == 10

\* df.nlargest(n, 'sustainability_score'): the n rows of the highest score,
\* highest first, rows of equal score in the order of the frame.
GetTopPerformers(df, n) ==
    LET sorted == DfSorted(df, FALSE, "stable")
    IN  SubSeq(sorted, 1, Min(n, Len(sorted)))

RECURSIVE SumScores(_, _)
SumScores(df, st) ==
    IF df = <<>> THEN 0
    ELSE (IF business[Head(df)].state = st
          THEN business[Head(df)].sustainability_score ELSE 0)
         + SumScores(Tail(df), st)

\* df.groupby('state')['sustainability_score'].mean(): per state of the frame,
\* the sum and the number of the scores (the mean is their quotient).
GetStateAvgSustainability(df) ==
    {[state |-> st,
      sum |-> SumScores(df, st),
      count |-> Cardinality({i \in DOMAIN df : business[df[i]].state = st})] :
        st \in {business[df[i]].state : i \in DOMAIN df}}

\* Search texts typed into the sidebar.
SearchTexts == {<<>>, <<"c", "o">>, <<"c", "O">>}

\* The page and the page size are chosen once; the caches start empty.
InitCache ==
    /\ business = BusinessTable(CachedRows)
    /\ filters = NoFilters
    /\ per_page \in PageSizes \ {0}
    /\ page \in 1..2
    /\ result = NoResult
    /\ display = NoDisplay
    /\ scanned = <<>>
    /\ GeoIdle
    /\ CacheIdle
    /\ TrackIdle
    /\ AuthIdle
    /\ MoreIdle

\* One run of the page script with search_query in the search box and the
\* other widgets at their defaults: the sidebar builds the filters dict, the
\* listing is served from load_cached_data's cache or loaded and stored, and,
\* unless the script stopped on an empty or failed listing, the analytics tab
\* takes the top performers and the state averages of df through their caches.
RunScript(search_query) ==
    LET f == SidebarFilters(search_query, "All States", "All Categories", 0, 100)
        key == FilterKey(f, page, per_page)
        hit == EntryLive(data_cache, key, ListingTTL, now)
    IN  \E order \in Orders(MatchingIds(business, CompileFilters(f))) :
          LET loaded == LoadFashionData(business, page, per_page, f, order)
              r == IF hit THEN data_cache[key].value ELSE loaded
              banner == PageBanner(r, per_page)
              tkey == TopPerformersKey(r.df, "sustainability_score")
              thit == EntryLive(top_cache, tkey, TopPerformersTTL, now)
              top_10 == IF thit THEN top_cache[tkey].value
                        ELSE GetTopPerformers(r.df, TopN)
              shit == EntryKept(state_avg_cache, StateAvgKey)
              state_avg == IF shit THEN state_avg_cache[StateAvgKey].value
                           ELSE GetStateAvgSustainability(r.df)
          IN  /\ filters' = f
              /\ result' = r
              /\ display' = banner
              /\ data_cache' = IF hit \/ loaded.outcome # "ok" THEN data_cache
                               ELSE CachePut(data_cache, key, loaded, now)
              /\ request' = [key |-> key, at |-> now, hit |-> hit,
                             invoked |-> IF hit THEN 0 ELSE 1,
                             before |-> EntryStamp(data_cache, key)]
              /\ IF banner.banner = "success"
                 THEN /\ top_cache' = IF thit THEN top_cache
                                      ELSE CachePut(top_cache, tkey, top_10, now)
                      /\ state_avg_cache' =
                            IF shit THEN state_avg_cache
                            ELSE CachePut(state_avg_cache, StateAvgKey, state_avg, now)
                      /\ analytics' = [ran |-> TRUE, df |-> r.df, top_10 |-> top_10,
                                       state_avg |-> state_avg]
                 ELSE /\ analytics' = NoAnalytics
                      /\ UNCHANGED <<top_cache, state_avg_cache>>
              /\ UNCHANGED <<business, per_page, page, scanned, now>>
              /\ UNCHANGED <<geoVars, trackVars, authVars, moreVars>>

\* Time passes.
Tick ==
    /\ now < MaxTicks * TickSeconds
    /\ now' = now + TickSeconds
    /\ UNCHANGED <<data_cache, top_cache, state_avg_cache, request, analytics>>
    /\ UNCHANGED <<listVars, geoVars, trackVars, authVars, moreVars>>

NextCache ==
    \/ \E search_query \in SearchTexts : RunScript(search_query)
    \/ Tick

SpecCache == InitCache /\ [][NextCache]_vars

\* ------------------------------------------------------ interaction tracker

\* Rows of the user_interactions table in the tracker specifications.
MaxTracked == 3

\* data.get(key): a missing key gives None.
Get(v) == IF v.kind = "absent" THEN NoneValue ELSE v

\* int(data['business_id']) when the key is there, float(data[
\* 'sustainability_score']) when it is there and not None: what they raise.
ConversionError(data) ==
    IF data.business_id.kind = "none" THEN "TypeError"
    ELSE IF data.business_id.kind = "str" THEN "ValueError"
    ELSE IF data.sustainability_score.kind = "str" THEN "ValueError"
    ELSE "none"

\* What can go wrong outside the function's own code: opening the session
\* (next(get_db())) or the insert / commit.
TrackFaults == {"none", "session", "commit"}

\* The exception raised inside the try block, "none" when it runs to the end.
BodyFailure(data, fault) ==
    IF fault = "session" THEN "SessionError"
    ELSE IF ConversionError(data) # "none" THEN ConversionError(data)
    ELSE IF fault = "commit" THEN "SQLAlchemyError"
    ELSE "none"

\* Mutant: the handler catches the errors of the store only.
ExceptCatchesStoreErrors(exc) == exc \in {"SessionError", "SQLAlchemyError"}

\* except Exception as e
ExceptCatches(exc) == exc \in {"SessionError", "SQLAlchemyError", "TypeError", "ValueError"}

\* UserInteraction(user_id=..., interaction_type=..., business_id=data.get(...), ...)
InteractionRow(user_id, interaction_type, data, t) ==
    [user_id |-> user_id,
     interaction_type |-> interaction_type,
     business_id |-> Get(data.business_id),
     category |-> Get(data.category),
     state |-> Get(data.state),
     sustainability_score |-> Get(data.sustainability_score),
     created_at |-> t]

\* track_user_interaction(user_id, interaction_type, data) at time t: the
\* table afterwards (a failed commit is rolled back), and how the call ended.
TrackUserInteraction(table, user_id, interaction_type, data, fault, t) ==
    LET failure == BodyFailure(data, fault)
    IN  [interactions |-> IF failure = "none"
                          THEN Append(table, InteractionRow(user_id, interaction_type, data, t))
                          ELSE table,
         record |-> [called |-> TRUE, user_id |-> user_id,
                     interaction_type |-> interaction_type, data |-> data,
                     failure |-> failure,
                     raised |-> IF failure # "none" /\ ~ExceptCatches(failure)
                                THEN failure ELSE "none",
                     error_logged |-> failure # "none" /\ ExceptCatches(failure),
                     before |-> table]]

\* The data dicts of the three interaction types.
ViewData(b) ==
    [NoData EXCEPT !.business_id = Num(b.id), !.category = Text(b.category),
                   !.sustainability_score = Num(b.sustainability_score)]
SearchData(b) ==
    [NoData EXCEPT !.state = Text(b.state),
                   !.sustainability_score = Num(b.sustainability_score)]
FilterData(category) == [NoData EXCEPT !.category = Text(category)]

\* Calls of the tracker: well-formed ones, and ones whose values do not convert.
TrackCalls ==
    {[interaction_type |-> "view_business", data |-> ViewData(BusinessRow(1))],
     [interaction_type |-> "view_business",
      data |-> [ViewData(BusinessRow(1)) EXCEPT !.business_id = Text("abc")]],
     [interaction_type |-> "view_business",
      data |-> [ViewData(BusinessRow(1)) EXCEPT !.business_id = NoneValue]],
     [interaction_type |-> "search_location", data |-> SearchData(BusinessRow(3))],
     [interaction_type |-> "search_location",
      data |-> [SearchData(BusinessRow(3)) EXCEPT !.sustainability_score = NoneValue]],
     [interaction_type |-> "search_location",
      data |-> [SearchData(BusinessRow(3)) EXCEPT !.sustainability_score = Text("n/a")]],
     [interaction_type |-> "filter_category", data |-> FilterData("Footwear")]}

InitTrack ==
    /\ business = BusinessTable(NumBusinesses)
    /\ ListIdle
    /\ GeoIdle
    /\ CacheIdle
    /\ TrackIdle
    /\ AuthIdle
    /\ MoreIdle

\* One call of track_user_interaction.
TrackCall(user_id, call, fault) ==
    LET r == TrackUserInteraction(interactions, user_id, call.interaction_type,
                                  call.data, fault, now)
    IN  /\ Len(interactions) < MaxTracked
        /\ interactions' = r.interactions
        /\ tracked' = r.record
        /\ UNCHANGED <<authenticated, user, last_recommendation_time,
                       pending_interactions, history, recommended>>
        /\ UNCHANGED <<business, listVars, geoVars, cacheVars, authVars, moreVars>>

NextTrack == \E call \in TrackCalls, fault \in TrackFaults : TrackCall(1, call, fault)

SpecTrack == InitTrack /\ [][NextTrack]_vars

\* ------------------------------------------------- tracking by the page script

\* Entries the pending list may hold in the session specification.
MaxPending == 2

SessionUsers == {1}

\* The pages of the listing a script run may show.
ShownPages == {<<>>, <<1>>, <<2, 1>>}

\* st.session_state.pending_interactions.append({...}) for every business of
\* the page, in the order of the grid.
RECURSIVE AppendViews(_, _, _)
AppendViews(pending, uid, df) ==
    IF df = <<>> THEN pending
    ELSE AppendViews(Append(pending,
                            [user_id |-> uid, interaction_type |-> "view_business",
                             data |-> ViewData(business[Head(df)])]),
                     uid, Tail(df))

InitSession ==
    /\ business = BusinessTable(NumBusinesses)
    /\ ListIdle
    /\ GeoIdle
    /\ CacheIdle
    /\ TrackIdle
    /\ AuthIdle
    /\ MoreIdle

\* login_user succeeded for user u (the form is shown to a logged-out session).
Login(u) ==
    /\ ~authenticated
    /\ authenticated' = TRUE
    /\ user' = u
    /\ last_recommendation_time' = "None"
    /\ UNCHANGED <<pending_interactions, interactions, tracked, history, recommended>>
    /\ UNCHANGED <<business, listVars, geoVars, cacheVars, authVars, moreVars>>

\* logout_user()
Logout ==
    /\ authenticated
    /\ authenticated' = FALSE
    /\ user' = 0
    /\ last_recommendation_time' = "None"
    /\ UNCHANGED <<pending_interactions, interactions, tracked, history, recommended>>
    /\ UNCHANGED <<business, listVars, geoVars, cacheVars, authVars, moreVars>>

\* The tracking done by one run of the page script: the sidebar tracks a
\* selected category at once, the listing appends a view of every business of
\* the page df to the pending list, and the Find button, when it found
\* businesses (nearest is the first of them, 0 when the button was not pressed
\* or found none), tracks the search.  Nothing else in the script reads the
\* pending list.
RenderPage(category_filter, df, nearest, fault1, fault2) ==
    LET filtered == authenticated /\ category_filter # "All Categories"
        t1 == IF filtered
              THEN TrackUserInteraction(interactions, user, "filter_category",
                                        FilterData(category_filter), fault1, now)
              ELSE [interactions |-> interactions, record |-> tracked]
        searched == authenticated /\ df # <<>> /\ nearest # 0
        t2 == IF searched
              THEN TrackUserInteraction(t1.interactions, user, "search_location",
                                        SearchData(business[nearest]), fault2, now)
              ELSE t1
        viewed == authenticated /\ df # <<>>
    IN  /\ Len(interactions) + (IF filtered THEN 1 ELSE 0)
              + (IF searched THEN 1 ELSE 0) <= MaxTracked
        /\ Len(pending_interactions) + (IF viewed THEN Len(df) ELSE 0) <= MaxPending
        /\ ~filtered => fault1 = "none"
        /\ ~searched => fault2 = "none"
        /\ interactions' = t2.interactions
        /\ tracked' = t2.record
        /\ pending_interactions' =
              IF viewed THEN AppendViews(pending_interactions, user, df)
              ELSE pending_interactions
        /\ last_recommendation_time' =
              IF viewed THEN "None" ELSE last_recommendation_time
        /\ UNCHANGED <<authenticated, user, history, recommended>>
        /\ UNCHANGED <<business, listVars, geoVars, cacheVars, authVars, moreVars>>

NextSession ==
    \/ \E u \in SessionUsers : Login(u)
    \/ Logout
    \/ \E category_filter \in {"All Categories", "Apparel"}, df \in ShownPages,
          nearest \in {0, 3}, fault1 \in TrackFaults, fault2 \in TrackFaults :
            RenderPage(category_filter, df, nearest, fault1, fault2)

SpecSession == InitSession /\ [][NextSession]_vars

\* The script runs again whenever the user acts on the page, and the user
\* keeps acting.
FairSpecSession == SpecSession /\ WF_vars(NextSession)

\* ------------------------------------------- history and recommendations

DaySeconds == 86400
\* timedelta(days=30) and interaction_descriptions[-5:]
WindowDays == 30
RecentLimit == 5
\* Rows of the user_interactions table the history is computed from.
MaxInteractions == 6

Reverse(s) == [i \in DOMAIN s |-> s[Len(s) + 1 - i]]

\* The query of get_user_interaction_history at time t, as row ids: the rows
\* of the user created at or after t - 30 days, ordered by created_at
\* descending.  created_at is the time of the insert, so it grows with the id.
QueryInteractions(table, user_id, t) ==
    LET keep == [i \in DOMAIN table |->
                    /\ table[i].user_id = user_id
                    /\ table[i].created_at >= t - WindowDays * DaySeconds]
    IN  Reverse(SelectSeq2([i \in DOMAIN table |-> i], keep))

\* if interaction.category: / if interaction.state:
Truthy(v) == v.kind = "str" /\ v.str # ""

\* The description of one interaction, None for an unknown type.
Description(row) ==
    IF row.interaction_type = "view_business"
    THEN [verb |-> "Viewed", subject |-> row.category]
    ELSE IF row.interaction_type = "search_location"
    THEN [verb |-> "Searched businesses in", subject |-> row.state]
    ELSE IF row.interaction_type = "filter_category"
    THEN [verb |-> "Explored", subject |-> row.category]
    ELSE [verb |-> "None", subject |-> NoneValue]

\* interaction_descriptions[-5:]
LastSlice(s, n) == SubSeq(s, Max(1, Len(s) - n + 1), Len(s))

RECURSIVE SumOfScores(_, _)
SumOfScores(table, ids) ==
    IF ids = <<>> THEN 0
    ELSE (IF table[Head(ids)].sustainability_score.kind = "num"
          THEN table[Head(ids)].sustainability_score.num ELSE 0)
         + SumOfScores(table, Tail(ids))

\* get_user_interaction_history(user_id) at time t.  described lists the rows
\* whose descriptions make up interaction_history, in its order; the average
\* is held as the sum and the number of the scores (0 when there is none).
GetUserInteractionHistory(table, user_id, t) ==
    LET ids == QueryInteractions(table, user_id, t)
        with_desc == SelectSeq2(ids, [k \in DOMAIN ids |->
                                        Description(table[ids[k]]).verb # "None"])
        described == LastSlice(with_desc, RecentLimit)
        cats == {table[ids[k]].category.str :
                    k \in {j \in DOMAIN ids : Truthy(table[ids[j]].category)}}
    IN  [fetched |-> TRUE, user_id |-> user_id, at |-> t,
         described |-> described,
         interaction_history |->
            IF ids = <<>>
            THEN <<[verb |-> "New user, no interaction history yet", subject |-> NoneValue]>>
            ELSE [k \in DOMAIN described |-> Description(table[described[k]])],
         categories_viewed |-> cats,
         category_counts |->
            [c \in cats |-> Cardinality({k \in DOMAIN ids :
                                /\ Truthy(table[ids[k]].category)
                                /\ table[ids[k]].category.str = c})],
         states_searched |->
            {table[ids[k]].state.str : k \in {j \in DOMAIN ids : Truthy(table[ids[j]].state)}},
         avg_sustainability_score |->
            [sum |-> SumOfScores(table, ids),
             count |-> Cardinality({k \in DOMAIN ids :
                                      table[ids[k]].sustainability_score.kind = "num"})]]

\* JSON values of the recommendation structure.  A field is missing, null, a
\* text or a list; an item of a list is an object with some of the keys type,
\* recommendation and reason, or a text.
ListOf(items) == [kind |-> "list", items |-> items]
TextField == [kind |-> "str", items |-> <<>>]
NullField == [kind |-> "null", items |-> <<>>]
GoodRec == [dict |-> TRUE, type |-> TRUE, recommendation |-> TRUE, reason |-> TRUE]
TextItem == [dict |-> FALSE, type |-> FALSE, recommendation |-> FALSE, reason |-> FALSE]
ObjectOf(br, tips, cats) ==
    [kind |-> "dict", business_recommendations |-> br, sustainability_tips |-> tips,
     suggested_categories |-> cats]
NotAnObject(kind) ==
    [kind |-> kind, business_recommendations |-> NoField,
     sustainability_tips |-> NoField, suggested_categories |-> NoField]

\* What the language model may answer: an exception of the call, a text that
\* is no JSON, or JSON of any shape.
Responses ==
    {[outcome |-> "raise", json |-> FALSE, value |-> NotAnObject("null")],
     [outcome |-> "text", json |-> FALSE, value |-> NotAnObject("null")],
     [outcome |-> "text", json |-> TRUE, value |-> NotAnObject("null")],
     [outcome |-> "text", json |-> TRUE, value |-> NotAnObject("list")]}
    \cup {[outcome |-> "text", json |-> TRUE,
           value |-> ObjectOf(br, ListOf(<<TextItem>>), ListOf(<<TextItem>>))] :
            br \in {NoField, NullField, TextField, ListOf(<<>>), ListOf(<<GoodRec>>),
                    ListOf(<<[GoodRec EXCEPT !.type = FALSE]>>), ListOf(<<TextItem>>)}}
    \cup {[outcome |-> "text", json |-> TRUE,
           value |-> ObjectOf(ListOf(<<GoodRec>>), TextField, NoField)]}

\* generate_recommendations: the getting-started structure without history,
\* the one-tip structure when the call raises or the answer is no JSON, and
\* otherwise whatever json.loads returned.
GenerateRecommendations(h, response) ==
    IF h.categories_viewed = {}
    THEN ObjectOf(ListOf(<<GoodRec>>), ListOf(<<TextItem, TextItem>>),
                  ListOf(<<TextItem, TextItem, TextItem>>))
    ELSE IF response.outcome = "raise" \/ ~response.json
    THEN ObjectOf(ListOf(<<>>), ListOf(<<TextItem>>), ListOf(<<>>))
    ELSE response.value

\* recommendations.get(key, [])
GetField(f) == IF f.kind = "missing" THEN ListOf(<<>>) ELSE f

\* format_recommendations_for_display: .get on a value that is no dict raises
\* AttributeError, which gives the empty structure.
FormatRecommendationsForDisplay(v) ==
    IF v.kind # "dict"
    THEN ObjectOf(ListOf(<<>>), ListOf(<<>>), ListOf(<<>>))
    ELSE ObjectOf(GetField(v.business_recommendations),
                  GetField(v.sustainability_tips),
                  GetField(v.suggested_categories))

\* The rendering of the tab: for rec in recommendations[
\* "business_recommendations"] reads rec['type'], rec['recommendation'] and
\* rec['reason']; tips and categories are only printed.
DisplayRaises(v) ==
    LET br == v.business_recommendations
    IN  IF br.kind = "str" THEN "TypeError"
        ELSE IF br.kind = "list" /\ \E i \in DOMAIN br.items : ~br.items[i].dict
        THEN "TypeError"
        ELSE IF br.kind = "list" /\ \E i \in DOMAIN br.items :
                    ~(br.items[i].type /\ br.items[i].recommendation /\ br.items[i].reason)
        THEN "KeyError"
        ELSE "none"

\* The rows a table may hold: views, searches and category selections of user
\* 1, and views of user 2.
RowKinds ==
    {[user_id |-> 1, interaction_type |-> "view_business", data |-> ViewData(BusinessRow(1))],
     [user_id |-> 1, interaction_type |-> "search_location", data |-> SearchData(BusinessRow(3))],
     [user_id |-> 1, interaction_type |-> "filter_category", data |-> FilterData("Footwear")],
     [user_id |-> 2, interaction_type |-> "view_business", data |-> ViewData(BusinessRow(2))]}

\* A table of n rows inserted one day after the other, and the time of the
\* request: right after the last insert, or when the first rows are older
\* than the window.
InitRec ==
    /\ business = BusinessTable(NumBusinesses)
    /\ ListIdle
    /\ GeoIdle
    /\ AuthIdle
    /\ MoreIdle
    /\ data_cache = <<>>
    /\ top_cache = <<>>
    /\ state_avg_cache = <<>>
    /\ request = NoRequest
    /\ analytics = NoAnalytics
    /\ authenticated = FALSE
    /\ user = 0
    /\ last_recommendation_time = "None"
    /\ pending_interactions = <<>>
    /\ tracked = NoTracked
    /\ history = NoHistory
    /\ recommended = NoRecommended
    /\ \E n \in 0..MaxInteractions : \E kinds \in [1..n -> RowKinds] :
          interactions = [i \in 1..n |->
                            InteractionRow(kinds[i].user_id, kinds[i].interaction_type,
                                           kinds[i].data, i * DaySeconds)]
    /\ now \in {MaxInteractions * DaySeconds, (WindowDays + 2) * DaySeconds}

\* The recommendations of user_id are generated, formatted and rendered, the
\* language model answering with response.
ShowRecommendations(user_id, response) ==
    LET h == GetUserInteractionHistory(interactions, user_id, now)
        v == FormatRecommendationsForDisplay(GenerateRecommendations(h, response))
    IN  /\ ~recommended.shown
        /\ history' = h
        /\ recommended' =
              [shown |-> TRUE,
               response |-> response.outcome,
               business_recommendations |-> v.business_recommendations,
               sustainability_tips |-> v.sustainability_tips,
               suggested_categories |-> v.suggested_categories,
               raised |-> DisplayRaises(v)]
        /\ UNCHANGED <<authenticated, user, last_recommendation_time,
                       pending_interactions, interactions, tracked>>
        /\ UNCHANGED <<listVars, geoVars, cacheVars, authVars, moreVars>>

NextRec == \E user_id \in {1, 2}, response \in Responses : ShowRecommendations(user_id, response)

SpecRec == InitRec /\ [][NextRec]_vars

\* ------------------------------------------------------------ registration

Emails == {"a@x.org", "b@x.org"}
Usernames == {"ann", "bob"}
Passwords == {"pw"}
\* secrets.token_hex(8)
Salts == {"5f", "c3"}

\* hash_password: a fresh salt and the digest of the password under it.
HashPassword(password, salt) == [salt |-> salt, pwdhash |-> <<salt, password>>]

\* db.query(User).filter(User.email == email).first() finds nothing at all.
EmailNeverFound(table, email) == FALSE

\* db.query(User).filter(User.email == email).first()
EmailRegistered(table, email) == \E i \in DOMAIN table : table[i].email = email

\* db.query(User).filter(User.username == username).first()
UsernameTaken(table, username) == \E i \in DOMAIN table : table[i].username = username

\* A users table without unique=True: no INSERT is rejected.
UniqueNeverViolated(table, email, username) == FALSE

\* unique=True on users.email and users.username: the INSERT of the commit
\* fails with IntegrityError.
UniqueViolation(table, email, username) ==
    \E i \in DOMAIN table : table[i].email = email \/ table[i].username = username

UserRow(id, email, username, hashed_password) ==
    [id |-> id, email |-> email, username |-> username,
     hashed_password |-> hashed_password, last_login |-> NoneValue]

InitAuth ==
    /\ business = BusinessTable(NumBusinesses)
    /\ ListIdle
    /\ GeoIdle
    /\ CacheIdle
    /\ TrackIdle
    /\ AuthIdle
    /\ MoreIdle

\* The register form of session s is submitted: register_user is entered.
SubmitRegister(s, email, username, password) ==
    /\ registration[s].pc \in {"idle", "returned"}
    /\ registration' = [registration EXCEPT ![s] =
          [pc |-> "called", email |-> email, username |-> username,
           password |-> password, returned |-> FALSE, message |-> "none",
           before |-> users]]
    /\ UNCHANGED users
    /\ UNCHANGED <<listVars, geoVars, cacheVars, trackVars, moreVars>>

\* The email query of register_user.
CheckEmail(s) ==
    /\ registration[s].pc = "called"
    /\ registration' = [registration EXCEPT ![s] =
          IF EmailRegistered(users, @.email)
          THEN [@ EXCEPT !.pc = "returned", !.returned = FALSE,
                         !.message = "Email already registered"]
          ELSE [@ EXCEPT !.pc = "email_free"]]
    /\ UNCHANGED users
    /\ UNCHANGED <<listVars, geoVars, cacheVars, trackVars, moreVars>>

\* The username query of register_user.
CheckUsername(s) ==
    /\ registration[s].pc = "email_free"
    /\ registration' = [registration EXCEPT ![s] =
          IF UsernameTaken(users, @.username)
          THEN [@ EXCEPT !.pc = "returned", !.returned = FALSE,
                         !.message = "Username already taken"]
          ELSE [@ EXCEPT !.pc = "username_free"]]
    /\ UNCHANGED users
    /\ UNCHANGED <<listVars, geoVars, cacheVars, trackVars, moreVars>>

\* db.add(user); db.commit(): the row is inserted, or the unique constraint
\* rejects it and except Exception shows the registration error.
CommitUser(s, salt) ==
    LET r == registration[s]
    IN  /\ r.pc = "username_free"
        /\ IF UniqueViolation(users, r.email, r.username)
           THEN /\ users' = users
                /\ registration' = [registration EXCEPT ![s] =
                      [@ EXCEPT !.pc = "returned", !.returned = FALSE,
                                !.message = "Registration error: IntegrityError"]]
           ELSE /\ users' = Append(users, UserRow(Len(users) + 1, r.email, r.username,
                                                  HashPassword(r.password, salt)))
                /\ registration' = [registration EXCEPT ![s] =
                      [@ EXCEPT !.pc = "returned", !.returned = TRUE]]
        /\ UNCHANGED <<listVars, geoVars, cacheVars, trackVars, moreVars>>

NextAuth ==
    \E s \in RegSessions :
        \/ \E email \in Emails, username \in Usernames, password \in Passwords :
              SubmitRegister(s, email, username, password)
        \/ CheckEmail(s)
        \/ CheckUsername(s)
        \/ \E salt \in Salts : CommitUser(s, salt)

SpecAuth == InitAuth /\ [][NextAuth]_vars

\* ---------------------------------------------------------- retry wrapper

\* retry_on_db_error(max_retries=3, delay=1)
DefaultMaxRetries == 3
DefaultDelay == 1
\* The decorator is tried with max_retries in 0..MaxRetriesTried.
MaxRetriesTried == 3

\* The read operations of data_processor.py that carry @retry_on_db_error().
ReadOperations ==
    {"load_fashion_data", "get_metrics_summary", "get_unique_states",
     "get_unique_cities", "get_unique_categories"}

\* What the store does to the queries of one invocation: nothing, a transient
\* error (a lost connection or a pool timeout, both subclasses of
\* SQLAlchemyError), or an error of another class.
StoreFaults == {"none", "OperationalError", "TimeoutError", "TypeError"}

\* except Exception: the handler that catches everything.
IsException(exc) == TRUE

\* except SQLAlchemyError as e
IsSQLAlchemyError(exc) ==
    exc \in {"SQLAlchemyError", "OperationalError", "TimeoutError", "IntegrityError"}

\* What one invocation hands to the wrapper.  The body of every read
\* operation is try: ... except Exception as e: raise Exception(f"Error ...:
\* {str(e)}"), so whatever a query raises leaves the function as a plain
\* Exception; the function called func raises what its body raised.
Raises(func, fault) ==
    IF fault = "none" THEN "none"
    ELSE IF func \in ReadOperations THEN "Exception"
    ELSE fault

\* time.sleep(delay) raises ValueError for a negative delay.
SleepRaises(delay) == delay < 0

\* A call of any function under any decorator arguments, or of a read
\* operation under the default ones.
InitRetry ==
    /\ business = BusinessTable(NumBusinesses)
    /\ ListIdle
    /\ GeoIdle
    /\ CacheIdle
    /\ TrackIdle
    /\ AuthIdle
    /\ BootIdle
    /\ AcctIdle
    /\ \/ \E m \in 0..MaxRetriesTried, d \in {-1, 0, 1} :
             retry = [NoRetry EXCEPT !.func = "func", !.max_retries = m,
                                     !.delay = d, !.pc = "loop"]
       \/ \E f \in ReadOperations :
             retry = [NoRetry EXCEPT !.func = f, !.max_retries = DefaultMaxRetries,
                                     !.delay = DefaultDelay, !.pc = "loop"]

\* One pass of the loop body: try: return func(*args, **kwargs), and the
\* except SQLAlchemyError clause up to the sleep.
Invoke(fault) ==
    LET exc == Raises(retry.func, fault)
        called == [retry EXCEPT !.faults = Append(@, fault), !.calls = Append(@, exc)]
    IN  /\ retry.pc = "loop"
        /\ retry.retries < retry.max_retries
        /\ retry' =
              IF exc = "none"
              THEN [called EXCEPT !.pc = "done", !.outcome = "returned"]
              ELSE IF IsSQLAlchemyError(exc)
              THEN IF retry.retries + 1 = retry.max_retries
                   THEN [called EXCEPT !.retries = @ + 1, !.pc = "done",
                                       !.outcome = "failed"]
                   ELSE [called EXCEPT !.retries = @ + 1, !.pc = "sleep"]
              ELSE [called EXCEPT !.pc = "done", !.outcome = "propagated"]
        /\ UNCHANGED <<listVars, geoVars, cacheVars, trackVars, authVars, bootVars, acctVars>>

\* time.sleep(delay), then back to the loop test.
Sleep ==
    /\ retry.pc = "sleep"
    /\ retry' =
          IF SleepRaises(retry.delay)
          THEN [retry EXCEPT !.pc = "done", !.outcome = "ValueError"]
          ELSE [retry EXCEPT !.pc = "loop", !.slept = @ + 1]
    /\ UNCHANGED <<listVars, geoVars, cacheVars, trackVars, authVars, bootVars, acctVars>>

\* The loop test fails: return None.
ExitLoop ==
    /\ retry.pc = "loop"
    /\ ~(retry.retries < retry.max_retries)
    /\ retry' = [retry EXCEPT !.pc = "done", !.outcome = "None"]
    /\ UNCHANGED <<listVars, geoVars, cacheVars, trackVars, authVars, bootVars, acctVars>>

NextRetry ==
    \/ \E fault \in StoreFaults : Invoke(fault)
    \/ Sleep
    \/ ExitLoop

SpecRetry == InitRetry /\ [][NextRetry]_vars

\* The wrapper runs in the thread of its caller, which keeps running.
FairSpecRetry == SpecRetry /\ WF_vars(NextRetry)

\* ---------------------------------------------------------- initialization

\* Rows of data/sustainable_fashion_data.csv (after drop_duplicates).
CsvRows == 2

\* The names of INITIAL_ACHIEVEMENTS, in order.
SeedBadges == <<"Explorer I", "Explorer II", "Eco Warrior I", "Community Leader I">>
SeedPoints == <<100, 250, 150, 200>>
SeedLevel == <<1, 2, 1, 1>>

\* What can fail inside init_database: nothing, the schema creation or the
\* opening of the session, or the reading of the CSV file.
InitFaults == {"none", "init_db", "read_csv"}

\* unique=True on businesses.brand_name
BrandTaken(table, brand_name) == \E i \in DOMAIN table : table[i].brand_name = brand_name

\* A store without the unique constraint on achievements.name.
BadgeNeverTaken(table, name) == FALSE

\* unique=True on achievements.name
BadgeTaken(table, name) == \E i \in DOMAIN table : table[i].name = name

\* Achievement(**achievement_data)
AchievementRow(id, k) ==
    [id |-> id, name |-> SeedBadges[k], points |-> SeedPoints[k], level |-> SeedLevel[k]]

\* except IntegrityError / except Exception of initialize_achievements
SeedingCatches(exc) == exc = "IntegrityError" \/ IsException(exc)

InitBoot ==
    /\ business = <<>>
    /\ ListIdle
    /\ GeoIdle
    /\ CacheIdle
    /\ TrackIdle
    /\ AuthIdle
    /\ RetryIdle
    /\ BootIdle
    /\ AcctIdle

\* The rest of the state, which no step of the initialization touches.
BootAside ==
    UNCHANGED <<filters, per_page, page, result, display, scanned,
                geoVars, cacheVars, trackVars, authVars, retryVars, acctVars>>

\* init_database returned: the session goes on to initialize_achievements.
Returned(b, value) ==
    [b EXCEPT !.pc = "achievements", !.init_database = value, !.ach_next = 1]

\* The first script run of session s enters the block ('db_initialized' not
\* in st.session_state) and calls init_database: init_db() and next(get_db()).
\* Any exception is caught by the outer except, which returns False.
StartSession(s, fault) ==
    /\ boot[s].pc = "start"
    /\ boot' = [boot EXCEPT ![s] =
          IF fault = "init_db"
          THEN Returned([@ EXCEPT !.fault = fault], "False")
          ELSE [@ EXCEPT !.fault = fault, !.pc = "delete"]]
    /\ UNCHANGED <<business, business_id_seq, achievements, achievement_id_seq, ingested>>
    /\ BootAside

\* db.query(Business).delete(); db.commit()
ClearBusinesses(s) ==
    /\ boot[s].pc = "delete"
    /\ business' = <<>>
    /\ boot' = [boot EXCEPT ![s].pc = "read_csv"]
    /\ UNCHANGED <<business_id_seq, achievements, achievement_id_seq, ingested>>
    /\ BootAside

\* pd.read_csv(...); a failure is re-raised by the inner except and turned
\* into return False by the outer one.
ReadCsv(s) ==
    /\ boot[s].pc = "read_csv"
    /\ boot' = [boot EXCEPT ![s] =
          IF @.fault = "read_csv" THEN Returned(@, "False")
          ELSE [@ EXCEPT !.pc = "insert", !.next = 1]]
    /\ UNCHANGED <<business, business_id_seq, achievements, achievement_id_seq, ingested>>
    /\ BootAside

\* One pass of the insert loop: db.add(business); db.commit(), the row taking
\* the next value of the serial; a duplicate brand_name is skipped.  After
\* the last row init_database returns True.
InsertBusiness(s) ==
    LET k == boot[s].next
        row == [BusinessRow(k) EXCEPT !.id = business_id_seq + 1]
        table == IF BrandTaken(business, row.brand_name) THEN business
                 ELSE Append(business, row)
    IN  /\ boot[s].pc = "insert"
        /\ business' = table
        /\ business_id_seq' = business_id_seq + 1
        /\ IF k < CsvRows
           THEN /\ boot' = [boot EXCEPT ![s].next = k + 1]
                /\ UNCHANGED ingested
           ELSE /\ boot' = [boot EXCEPT ![s] = Returned(@, "True")]
                /\ ingested' = IF ingested.done THEN ingested
                               ELSE [done |-> TRUE, rows |-> table]
        /\ UNCHANGED <<achievements, achievement_id_seq>>
        /\ BootAside

\* One pass of the loop of initialize_achievements: db.add(achievement);
\* db.commit(); the unique name makes the commit fail with IntegrityError,
\* which is rolled back and skipped.  After the last badge the block sets
\* st.session_state.db_initialized = True; an exception that left the
\* function would be shown by the block's except, which stops the script.
SeedAchievement(s) ==
    LET k == boot[s].ach_next
        exc == IF BadgeTaken(achievements, SeedBadges[k]) THEN "IntegrityError" ELSE "none"
    IN  /\ boot[s].pc = "achievements"
        /\ achievement_id_seq' = achievement_id_seq + 1
        /\ achievements' =
              IF exc = "none"
              THEN Append(achievements, AchievementRow(achievement_id_seq + 1, k))
              ELSE achievements
        /\ boot' = [boot EXCEPT ![s] =
              IF exc # "none" /\ ~SeedingCatches(exc)
              THEN [@ EXCEPT !.pc = "stopped", !.raised = exc, !.page = "stopped"]
              ELSE IF k < Len(SeedBadges)
              THEN [@ EXCEPT !.ach_next = k + 1]
              ELSE [@ EXCEPT !.pc = "ready", !.db_initialized = TRUE]]
        /\ UNCHANGED <<business, business_id_seq, ingested>>
        /\ BootAside

\* The script of an initialized session goes on and loads the listing.
ServePage(s) ==
    /\ boot[s].pc = "ready"
    /\ boot' = [boot EXCEPT ![s] = [@ EXCEPT !.page = "served", !.seen = business]]
    /\ UNCHANGED <<business, business_id_seq, achievements, achievement_id_seq, ingested>>
    /\ BootAside

NextBoot ==
    \E s \in BootSessions :
        \/ \E fault \in InitFaults : StartSession(s, fault)
        \/ ClearBusinesses(s)
        \/ ReadCsv(s)
        \/ InsertBusiness(s)
        \/ SeedAchievement(s)
        \/ ServePage(s)

SpecBoot == InitBoot /\ [][NextBoot]_vars

\* --------------------------------------------------- one session's account

\* The registered users of the session specification.
StoredUsers ==
    <<UserRow(1, "a@x.org", "ann", HashPassword("pw-ann", "5f")),
      UserRow(2, "b@x.org", "bob", HashPassword("pw-bob", "c3"))>>
LoginEmails == {"a@x.org", "b@x.org", "c@x.org"}
LoginPasswords == {"pw-ann", "pw-bob"}
ApiKeys == {"sk-1"}
\* The pages of the listing a script run may show.
AccountPages == {<<>>, <<1>>}
\* Rows of the user_interactions table and entries of the pending list in
\* the session specification.
MaxAccountRows == 2
MaxQueued == 1

\* db.query(User).filter(User.email == email).first(), as a row number (0 for
\* None).
FindUser(table, email) ==
    IF \E i \in DOMAIN table : table[i].email = email
    THEN CHOOSE i \in DOMAIN table :
            table[i].email = email /\ \A j \in 1..(i - 1) : table[j].email # email
    ELSE 0

\* verify_password(stored_password, provided_password)
VerifyPassword(stored, provided) ==
    HashPassword(provided, stored.salt).pwdhash = stored.pwdhash

\* The session state the script works on.
SessionState ==
    [authenticated |-> authenticated, user |-> user,
     last_recommendation_time |-> last_recommendation_time,
     pending_interactions |-> pending_interactions,
     openai_api_key |-> openai_api_key,
     current_recommendations |-> current_recommendations,
     category_filter |-> widgets.category_filter]

\* A logout that only drops the flag.
LogoutKeepsUser(st) == [st EXCEPT !.authenticated = FALSE]

\* logout_user()
LogoutUser(st) ==
    [st EXCEPT !.authenticated = FALSE, !.user = 0, !.last_recommendation_time = "None"]

\* The cache key of a function whose arguments are hashed to nothing.
KeyWithoutUser(user_id, api_key) == [user_id |-> 0, api_key |-> api_key]

\* The cache key of get_cached_recommendations(user_id, api_key).
RecommendationsKey(user_id, api_key) == [user_id |-> user_id, api_key |-> api_key]

\* generate_recommendations + format: what the answer depends on is the
\* history of user_id.
CachedRecommendationsBody(table, user_id) ==
    [user_id |-> user_id,
     category_counts |-> GetUserInteractionHistory(table, user_id, now).category_counts]

\* One run of the page script from the sidebar filters on.  key_input is the
\* key typed when the Set API Key button started the run, "None" otherwise;
\* df is the page of the listing.  The sidebar tracks the selected category,
\* the listing queues a view of every business and clears the recommendation
\* time, and the recommendations tab shows the login prompt, the API key
\* warning, or the recommendations: generated through the cache when the time
\* is None, taken from the session otherwise.
Script(st, table, cache, key_input, df) ==
    LET filtered == st.authenticated /\ st.category_filter # "All Categories"
        table1 == IF filtered
                  THEN TrackUserInteraction(table, st.user, "filter_category",
                                            FilterData(st.category_filter), "none",
                                            now).interactions
                  ELSE table
        viewed == st.authenticated /\ df # <<>>
        st1 == IF viewed
               THEN [st EXCEPT !.pending_interactions = AppendViews(@, st.user, df),
                               !.last_recommendation_time = "None"]
               ELSE st
        st2 == IF st1.authenticated /\ key_input # "None"
               THEN [st1 EXCEPT !.openai_api_key = key_input]
               ELSE st1
        key == RecommendationsKey(st2.user, st2.openai_api_key)
        value == IF key \in DOMAIN cache THEN cache[key]
                 ELSE CachedRecommendationsBody(table1, st2.user)
    IN  IF ~st2.authenticated
        THEN [st |-> st2, interactions |-> table1, cache |-> cache,
              tab |-> [kind |-> "login", to |-> 0, value |-> NoRecommendations]]
        ELSE IF st2.openai_api_key = "None"
        THEN [st |-> st2, interactions |-> table1, cache |-> cache,
              tab |-> [kind |-> "warning", to |-> st2.user, value |-> NoRecommendations]]
        ELSE IF st2.last_recommendation_time = "None"
        THEN [st |-> [st2 EXCEPT !.last_recommendation_time = "set",
                                 !.current_recommendations = value],
              interactions |-> table1,
              cache |-> [k \in DOMAIN cache \cup {key} |->
                            IF k = key THEN value ELSE cache[k]],
              tab |-> [kind |-> "recommendations", to |-> st2.user, value |-> value]]
        ELSE [st |-> st2, interactions |-> table1, cache |-> cache,
              tab |-> [kind |-> "recommendations", to |-> st2.user,
                       value |-> st2.current_recommendations]]

\* The state a script run leaves behind.
Ran(r) ==
    /\ Len(r.interactions) <= MaxAccountRows
    /\ Len(r.st.pending_interactions) <= MaxQueued
    /\ authenticated' = r.st.authenticated
    /\ user' = r.st.user
    /\ last_recommendation_time' = r.st.last_recommendation_time
    /\ pending_interactions' = r.st.pending_interactions
    /\ openai_api_key' = r.st.openai_api_key
    /\ current_recommendations' = r.st.current_recommendations
    /\ interactions' = r.interactions
    /\ rec_cache' = r.cache
    /\ rec_tab' = r.tab
    /\ UNCHANGED <<tracked, history, recommended, registration>>
    /\ UNCHANGED <<listVars, geoVars, cacheVars, retryVars, bootVars>>

InitAccount ==
    /\ business = BusinessTable(NumBusinesses)
    /\ ListIdle
    /\ GeoIdle
    /\ CacheIdle
    /\ TrackIdle
    /\ users = StoredUsers
    /\ registration = [s \in RegSessions |-> NoRegistration]
    /\ MoreIdle

\* The login form is submitted.  login_user finds the user by email and
\* verifies the password; on success it stamps last_login, commits, fills the
\* session state, and the script is run again from the top; a failed commit
\* is caught and gives False like a wrong email or password, and the script
\* goes on.
LoginSubmit(email, password, fault, df) ==
    LET i == FindUser(users, email)
        verified == i # 0 /\ VerifyPassword(users[i].hashed_password, password)
        ok == verified /\ fault = "none"
        st == IF ok
              THEN [SessionState EXCEPT !.authenticated = TRUE, !.user = users[i].id,
                                        !.last_recommendation_time = "None"]
              ELSE SessionState
    IN  /\ ~authenticated
        /\ ~verified => fault = "none"
        /\ users' = IF ok THEN [users EXCEPT ![i].last_login = Num(now)] ELSE users
        /\ login' = [called |-> TRUE, returned |-> ok, toggle |-> ~login.toggle]
        /\ UNCHANGED widgets
        /\ Ran(Script(st, interactions, rec_cache, "None", df))

\* The Logout button: logout_user(), and the script is run again.
LogoutPress(df) ==
    /\ authenticated
    /\ UNCHANGED <<users, login, widgets>>
    /\ Ran(Script(LogoutUser(SessionState), interactions, rec_cache, "None", df))

\* Another value is chosen in the category selectbox, which runs the script.
SelectCategory(category, df) ==
    /\ category # widgets.category_filter
    /\ widgets' = [category_filter |-> category,
                   selections |-> IF authenticated /\ category # "All Categories"
                                  THEN widgets.selections + 1 ELSE widgets.selections]
    /\ UNCHANGED <<users, login>>
    /\ Ran(Script([SessionState EXCEPT !.category_filter = category],
                  interactions, rec_cache, "None", df))

\* The Set API Key button with a key typed in.
SetApiKey(api_key, df) ==
    /\ authenticated
    /\ UNCHANGED <<users, login, widgets>>
    /\ Ran(Script(SessionState, interactions, rec_cache, api_key, df))

\* Any other widget event (page, sort, tab content): the script runs again.
Rerun(df) ==
    /\ UNCHANGED <<users, login, widgets>>
    /\ Ran(Script(SessionState, interactions, rec_cache, "None", df))

\* The Refresh Recommendations button: the run it starts ends by clearing
\* the time and running the script once more.
RefreshPress(df) ==
    LET r == Script(SessionState, interactions, rec_cache, "None", df)
    IN  /\ rec_tab.kind = "recommendations"
        /\ UNCHANGED <<users, login, widgets>>
        /\ Ran(Script([r.st EXCEPT !.last_recommendation_time = "None"],
                      r.interactions, r.cache, "None", df))

\* The entries of get_cached_recommendations expire (ttl=1800).
ExpireRecommendations ==
    /\ rec_cache # <<>>
    /\ rec_cache' = <<>>
    /\ UNCHANGED <<openai_api_key, current_recommendations, rec_tab, login, widgets>>
    /\ UNCHANGED <<listVars, geoVars, cacheVars, trackVars, authVars, retryVars, bootVars>>

NextAccount ==
    \/ \E email \in LoginEmails, password \in LoginPasswords,
          fault \in {"none", "commit"}, df \in AccountPages :
            LoginSubmit(email, password, fault, df)
    \/ \E df \in AccountPages : LogoutPress(df)
    \/ \E category \in {"All Categories", "Apparel"}, df \in AccountPages :
            SelectCategory(category, df)
    \/ \E api_key \in ApiKeys, df \in AccountPages : SetApiKey(api_key, df)
    \/ \E df \in AccountPages : Rerun(df)
    \/ \E df \in AccountPages : RefreshPress(df)
    \/ ExpireRecommendations

SpecAccount == InitAccount /\ [][NextAccount]_vars

\* ------------------------------------------------------------------ claims

Loaded == result.outcome # "none"
Matching == MatchingIds(business, CompileFilters(filters))
LastPage == CeilDiv(result.total_count, per_page)

\* Pages 1..LastPage of the configuration have been loaded one after the other.
WalkComplete ==
    /\ result.outcome = "ok"
    /\ per_page > 0
    /\ LastPage >= 1
    /\ Len(scanned) >= LastPage

WalkedPages == SubSeq(scanned, 1, LastPage)

\* C1: on an unchanged store, the pages 1..last of a fixed filter and page size,
\* concatenated as displayed under any sort selection, hold every matching
\* business exactly once (no duplicates, no gaps).
C1_PagesPartitionMatches ==
    WalkComplete =>
        \A ascending \in BOOLEAN, kind \in SortKinds :
            LET shown == Concat([k \in DOMAIN WalkedPages |->
                                    DfSorted(WalkedPages[k], ascending, kind)])
            IN  NoDuplicates(shown) /\ Range(shown) = Matching

\* C2: every slice has length min(page_size, max(0, total_count - (page-1)*page_size)),
\* and total_count is the sum of the slice lengths over pages 1..last.
C2_TotalIsSumOfSlices ==
    /\ (result.outcome = "ok" /\ page >= 1) =>
          Len(result.df) =
              Min(per_page, Max(0, result.total_count - (page - 1) * per_page))
    /\ WalkComplete => SumLen(WalkedPages) = result.total_count

\* A walk of two pages whose last page is partial.
C2_Witness ==
    /\ WalkComplete
    /\ LastPage = 2
    /\ result.total_count = 3
    /\ page = 2
    /\ Len(result.df) = 1

\* t occurs in s as a substring, letter case ignored.
IsSubstringCI(t, s) ==
    \E i \in 1..(Len(s) + 1) :
        /\ i + Len(t) - 1 <= Len(s)
        /\ SubSeq(LowerSeq(s), i, i + Len(t) - 1) = LowerSeq(t)

\* The predicate the three options stand for: exact category, exact state,
\* case-insensitive substring of the brand name.
SatisfiesOptions(row, f) ==
    /\ f.category.present => row.category = f.category.val
    /\ f.state.present => row.state = f.state.val
    /\ f.search.present => IsSubstringCI(f.search.val, row.brand_name)

\* C3: with no score bound given, a business is counted and can appear in a
\* slice exactly when it satisfies every present option among category, state
\* and search.
C3_ConjunctionOfPresentOptions ==
    (/\ result.outcome = "ok"
     /\ per_page >= 1
     /\ ~filters.min_score.present
     /\ ~filters.max_score.present) =>
        /\ result.total_count =
              Cardinality({i \in DOMAIN business : SatisfiesOptions(business[i], filters)})
        /\ \A i \in Range(result.df) : SatisfiesOptions(business[i], filters)

\* C4: every business returned under a numeric min_score has a score >= it, and
\* under a numeric max_score a score <= it, for every bound value, 0 included.
C4_ScoreBoundsInclusive ==
    result.outcome = "ok" =>
        \A i \in Range(result.df) :
            /\ (filters.min_score.present /\ filters.min_score.kind = "int") =>
                  business[i].sustainability_score >= filters.min_score.num
            /\ (filters.max_score.present /\ filters.max_score.kind = "int") =>
                  business[i].sustainability_score <= filters.max_score.num

\* No score bound of the configuration is a non-empty string.
BoundsUsable ==
    /\ ~(filters.min_score.kind = "str" /\ filters.min_score.str # "")
    /\ ~(filters.max_score.kind = "str" /\ filters.max_score.str # "")

BeyondLastPage ==
    /\ Loaded
    /\ BoundsUsable
    /\ page >= 1
    /\ per_page >= 1
    /\ (page - 1) * per_page >= Cardinality(Matching)

\* C5: a page beyond the last one gives an empty slice with the count of the
\* matching rows, and no error: the page script shows its "no businesses"
\* warning.
C5_BeyondLastPageIsEmpty ==
    BeyondLastPage =>
        /\ result.outcome = "ok"
        /\ result.df = <<>>
        /\ result.total_count = Cardinality(Matching)
        /\ display.banner = "warning"

\* Page 3 of a listing that has two pages and three matching rows.
C5_Witness ==
    /\ BeyondLastPage
    /\ page = 3
    /\ per_page = 2
    /\ result.total_count = 3

\* C6: a load with page size 0 or page < 1 fails with InvalidPagination, returns
\* no slice, issues no offset/limit statement and does not reach the division.
C6_InvalidPaginationRejected ==
    (Loaded /\ (per_page = 0 \/ page < 1)) =>
        /\ result.outcome = "InvalidPagination"
        /\ ~result.query.issued
        /\ display.raised # "ZeroDivisionError"

\* C7: a load (of a valid page and page size) whose min_score or max_score is
\* not numeric fails with InvalidFilterValue, and no statement built from the
\* configuration reaches the store.
C7_NonNumericBoundRejected ==
    (/\ Loaded
     /\ page >= 1
     /\ per_page >= 1
     /\ (\/ (filters.min_score.present /\ filters.min_score.kind = "str")
         \/ (filters.max_score.present /\ filters.max_score.kind = "str"))) =>
        /\ result.outcome = "InvalidFilterValue"
        /\ ~result.query.issued

\* The distance, in miles, from the reference point of the last search to a row.
MilesFromReference(row) ==
    Geodesic(search.lat, search.lon, row.latitude, row.longitude).miles

Searched == search.outcome # "none"
FoundIds == [i \in DOMAIN search.found |-> search.found[i].row.id]

\* C8: get_nearby_businesses returns exactly the rows of the working set at a
\* distance <= radius miles (the boundary included), each once and each with
\* its distance in miles.
C8_ExactlyWithinRadius ==
    Searched =>
        /\ NoDuplicates(FoundIds)
        /\ Range(FoundIds) =
              {row.id : row \in {r \in Range(wdf.rows) : MilesFromReference(r) <= search.rad}}
        /\ \A i \in DOMAIN search.found :
              search.found[i].distance = MilesFromReference(search.found[i].row)

\* A search that keeps a row at exactly the radius and drops a farther one.
C8_Witness ==
    /\ Searched
    /\ search.rad >= 1
    /\ \E i \in DOMAIN search.found : search.found[i].distance = search.rad
    /\ \E r \in Range(wdf.rows) : MilesFromReference(r) > search.rad

NonDecreasing(s) ==
    \A i, j \in DOMAIN s : i < j => s[i].distance <= s[j].distance

\* C9: in the result of a radius search, before and after the minimum-score
\* quick filter, a record never precedes a nearer one.
C9_NearestFirst ==
    search.outcome = "ok" => (NonDecreasing(search.found) /\ NonDecreasing(search.nearby))

\* The quick filter removed a record, two records at different distances are
\* left, and the working set listed a farther row before a nearer one.
C9_Witness ==
    /\ search.outcome = "ok"
    /\ search.min_score > 0
    /\ Len(search.nearby) >= 2
    /\ Len(search.found) > Len(search.nearby)
    /\ search.nearby[1].distance < search.nearby[2].distance
    /\ \E i, j \in DOMAIN wdf.distance : i < j /\ wdf.distance[i] > wdf.distance[j]

SameArguments(a, b) ==
    /\ a.lat = b.lat
    /\ a.lon = b.lon
    /\ a.rad = b.rad
    /\ a.min_score = b.min_score

C11_InvalidCoordinatesExcluded ==
    (Searched /\ ApplyRaises(wdf)) =>
        /\ search.outcome = "ok"
        /\ \A i \in DOMAIN search.found : ~PointRejected(search.found[i].row.latitude)
        /\ \A r \in Range(wdf.rows) :
              (~PointRejected(r.latitude) /\ MilesFromReference(r) <= search.rad) =>
                  \E i \in DOMAIN search.found : search.found[i].row.id = r.id

Requested == request.key # NoKey

C13_CachedAggregatesOfCurrentInputs ==
    analytics.ran =>
        /\ analytics.df = result.df
        /\ analytics.top_10 = GetTopPerformers(result.df, TopN)
        /\ analytics.state_avg = GetStateAvgSustainability(result.df)

\* Two keys of configurations that select the same businesses: the same page
\* and page size, and the same options up to the letter case of the search
\* text (the search is a case-insensitive substring match).
SameConfiguration(k1, k2) ==
    /\ k1.page = k2.page
    /\ k1.per_page = k2.per_page
    /\ Len(k1.filters) = Len(k2.filters)
    /\ \A i \in DOMAIN k1.filters :
          [k1.filters[i] EXCEPT !.chars = LowerSeq(@)] =
              [k2.filters[i] EXCEPT !.chars = LowerSeq(@)]

\* The entry key k had when the last request arrived.
StampAtRequest(k) ==
    IF k = request.key THEN request.before ELSE EntryStamp(data_cache, k)

\* C14: a listing request that follows, within the TTL, a request of a
\* semantically equal configuration, page and page size has the same cache key
\* and does not query the store.
C14_EqualConfigurationsShareEntry ==
    Requested =>
        \A k \in DOMAIN data_cache :
            (/\ SameConfiguration(k, request.key)
             /\ StampAtRequest(k).present
             /\ request.at < StampAtRequest(k).stored_at + ListingTTL) =>
                (k = request.key /\ request.invoked = 0)

\* C15: a track_user_interaction call never raises; when it succeeds the table
\* has exactly one new row, of the given user and type, after the rows it had;
\* when anything fails inside it the table is as it was and the error is
\* logged.  Rows already there are never changed or removed.
C15_TrackingNeverRaises ==
    tracked.called =>
        /\ tracked.raised = "none"
        /\ tracked.failure = "none" =>
              /\ Len(interactions) = Len(tracked.before) + 1
              /\ SubSeq(interactions, 1, Len(tracked.before)) = tracked.before
              /\ interactions[Len(interactions)].user_id = tracked.user_id
              /\ interactions[Len(interactions)].interaction_type =
                    tracked.interaction_type
        /\ tracked.failure # "none" =>
              /\ interactions = tracked.before
              /\ tracked.error_logged

\* A call whose value does not convert, made when the table already has a row.
C15_Witness ==
    /\ tracked.called
    /\ tracked.failure = "ValueError"
    /\ tracked.before # <<>>
    /\ interactions = tracked.before

\* A pending entry has its view_business row in the table.
Recorded(e) ==
    \E i \in DOMAIN interactions :
        /\ interactions[i].user_id = e.user_id
        /\ interactions[i].interaction_type = "view_business"
        /\ interactions[i].business_id = e.data.business_id

\* The insertion of a pending entry was tried, failed and was logged.
FailureLogged(e) ==
    /\ tracked.called
    /\ tracked.error_logged
    /\ tracked.user_id = e.user_id
    /\ tracked.interaction_type = "view_business"
    /\ tracked.data = e.data

\* C16: every entry appended to pending_interactions is eventually inserted as
\* a view_business row, or its failure is logged.
C16_PendingViewsEventuallyRecorded ==
    (pending_interactions # <<>>) ~>
        (\A i \in DOMAIN pending_interactions :
            Recorded(pending_interactions[i]) \/ FailureLogged(pending_interactions[i]))

\* The rows of the user whose history was fetched that lie in the trailing
\* window at the time of the fetch, and the n most recent rows of a set.
WindowRows ==
    {i \in DOMAIN interactions :
        /\ interactions[i].user_id = history.user_id
        /\ interactions[i].created_at >= history.at - WindowDays * DaySeconds}
MostRecent(rows, n) ==
    {i \in rows :
        Cardinality({j \in rows :
            interactions[j].created_at > interactions[i].created_at}) < n}

\* C17: the descriptions of the history are drawn only from the user's
\* interactions of the trailing 30 days, are ordered newest first, and describe
\* the user's 5 most recent interactions of the window (all of them when
\* there are fewer than 5).
C17_HistoryDescribesMostRecent ==
    history.fetched =>
        /\ Range(history.described) \subseteq WindowRows
        /\ \A k \in 1..(Len(history.described) - 1) :
              interactions[history.described[k]].created_at
                  >= interactions[history.described[k + 1]].created_at
        /\ Range(history.described) = MostRecent(WindowRows, RecentLimit)

\* The businesses the user viewed in the window.
ViewedRows == {i \in WindowRows : interactions[i].interaction_type = "view_business"}
CountOf(counts, c) == IF c \in DOMAIN counts THEN counts[c] ELSE 0
\* Two means, each held as a sum and a count and 0 when the count is 0.
SameMean(a, b) ==
    IF a.count = 0 \/ b.count = 0
    THEN (a.count = 0 \/ a.sum = 0) /\ (b.count = 0 \/ b.sum = 0)
    ELSE a.sum * b.count = b.sum * a.count

\* C18: category_counts[c] is the number of businesses of category c the user
\* viewed in the window and avg_sustainability_score is the mean score of the
\* businesses viewed in the window (0 when none); search-location and
\* filter-category interactions contribute to neither.
C18_AggregatesCountViewsOnly ==
    history.fetched =>
        /\ \A c \in DOMAIN history.category_counts \cup
                    {interactions[i].category.str : i \in ViewedRows} :
              CountOf(history.category_counts, c) =
                  Cardinality({i \in ViewedRows : interactions[i].category = Text(c)})
        /\ SameMean(history.avg_sustainability_score,
                    [sum |-> SumOfScores(interactions,
                                SelectSeq2([i \in DOMAIN interactions |-> i],
                                           [i \in DOMAIN interactions |-> i \in ViewedRows])),
                     count |-> Cardinality({i \in ViewedRows :
                                  interactions[i].sustainability_score.kind = "num"})])

\* C19: whatever the language model returns, the structure handed to the page
\* has the three fields business_recommendations, sustainability_tips and
\* suggested_categories, each a list, every business recommendation carries
\* type, recommendation and reason, and no exception reaches the page.
C19_RecommendationsAlwaysWellFormed ==
    recommended.shown =>
        /\ recommended.business_recommendations.kind = "list"
        /\ recommended.sustainability_tips.kind = "list"
        /\ recommended.suggested_categories.kind = "list"
        /\ \A i \in DOMAIN recommended.business_recommendations.items :
              LET rec == recommended.business_recommendations.items[i]
              IN  rec.dict /\ rec.type /\ rec.recommendation /\ rec.reason
        /\ recommended.raised = "none"

\* The call of session s was made with an email, or with a username, that a
\* stored user already had.
DuplicateEmailCall(r) == \E i \in DOMAIN r.before : r.before[i].email = r.email
DuplicateUsernameCall(r) == \E i \in DOMAIN r.before : r.before[i].username = r.username
DuplicateMessages == {"Email already registered", "Username already taken"}

\* C20: a register_user call made with an email or a username that already
\* belongs to a stored user never changes the users table, and it returns
\* False with the duplicate message ("Email already registered" for a
\* duplicate email), not the generic registration error.
C20_DuplicateRegistrationRejected ==
    [][\A s \in RegSessions :
          LET r == registration'[s]
          IN  (registration'[s] # registration[s]
                 /\ (DuplicateEmailCall(r) \/ DuplicateUsernameCall(r)))
              => /\ users' = users
                 /\ r.pc = "returned" =>
                       /\ r.returned = FALSE
                       /\ r.message \in DuplicateMessages
                       /\ DuplicateEmailCall(r) => r.message = "Email already registered"]_vars

\* One session was refused for its email and the other for its username.
C20_Witness ==
    \E s, t \in RegSessions :
        /\ registration[s].pc = "returned"
        /\ DuplicateEmailCall(registration[s])
        /\ registration[s].message = "Email already registered"
        /\ users = registration[s].before
        /\ registration[t].pc = "returned"
        /\ DuplicateUsernameCall(registration[t])
        /\ ~DuplicateEmailCall(registration[t])
        /\ registration[t].message = "Username already taken"

\* The exception classes that derive from SQLAlchemyError.
DatabaseErrors == {"SQLAlchemyError", "OperationalError", "TimeoutError", "IntegrityError"}

\* C21: a transient store error raised by a query of a read operation makes
\* the operation run again, up to 3 attempts in all; the failure reaches the
\* caller only after the attempts are exhausted, and a later attempt that
\* succeeds gives the caller its result.
C21_TransientReadErrorsRetried ==
    (/\ retry.func \in ReadOperations
     /\ retry.pc = "done"
     /\ \A i \in DOMAIN retry.faults :
           retry.faults[i] = "none" \/ retry.faults[i] \in DatabaseErrors)
    => \/ retry.outcome = "returned" /\ retry.faults[Len(retry.faults)] = "none"
       \/ /\ retry.outcome \in {"failed", "propagated"}
          /\ Len(retry.faults) = DefaultMaxRetries

\* What the calls of the wrapped function so far permit and require.
C24_Safety ==
    /\ Len(retry.calls) <= Max(retry.max_retries, 0)
    /\ retry.slept <= Len(retry.calls)
    /\ \A i \in 1..(Len(retry.calls) - 1) : retry.calls[i] \in DatabaseErrors
    /\ (retry.calls # <<>> /\ retry.calls[Len(retry.calls)] = "none")
          => retry.pc = "done" /\ retry.outcome = "returned"
    /\ (/\ retry.max_retries > 0
        /\ Len(retry.calls) = retry.max_retries
        /\ \A i \in DOMAIN retry.calls : retry.calls[i] \in DatabaseErrors)
          => retry.pc = "done" /\ retry.outcome = "failed"
    /\ (/\ retry.calls # <<>>
        /\ retry.calls[Len(retry.calls)] # "none"
        /\ retry.calls[Len(retry.calls)] \notin DatabaseErrors)
          => retry.pc = "done" /\ retry.outcome = "propagated"

\* C24: the wrapper of retry_on_db_error(max_retries, delay) invokes the
\* function at most max_retries times and terminates; it returns the first
\* successful result at once, invokes again only after a SQLAlchemyError,
\* raises its failure after the max_retries-th SQLAlchemyError in a row, and
\* lets any other exception through at once.
C24_RetryWrapperContract == []C24_Safety /\ <>(retry.pc = "done")

\* Two SQLAlchemyErrors, two sleeps, and a third invocation that succeeded.
C24_Witness ==
    /\ retry.func = "func"
    /\ retry.pc = "done"
    /\ retry.outcome = "returned"
    /\ retry.calls = <<"OperationalError", "OperationalError", "none">>
    /\ retry.slept = 2

\* C22: once the first bulk ingestion has completed, the rows of the
\* businesses table, identities and field values, are never changed by a
\* later operation, the start of further sessions included, so that no reader
\* finds the table empty or partly loaded after that point.
C22_BusinessesImmutableAfterIngestion ==
    ingested.done => business = ingested.rows

\* The names of the catalog, and the sessions whose seeding run has ended.
BadgeNames == {achievements[i].name : i \in DOMAIN achievements}
SeedingDone(s) == boot[s].pc \in {"ready", "stopped"}
C23_Catalog ==
    /\ \A i, j \in DOMAIN achievements :
          achievements[i].name = achievements[j].name => i = j
    /\ \A s \in BootSessions : boot[s].raised = "none"
    /\ (\E s \in BootSessions : SeedingDone(s))
          => /\ BadgeNames = Range(SeedBadges)
             /\ Len(achievements) = Len(SeedBadges)
C23_Step ==
    /\ \A i \in DOMAIN achievements :
          i \in DOMAIN achievements' /\ achievements'[i] = achievements[i]
    /\ (\E s \in BootSessions : SeedingDone(s)) => achievements' = achievements

C29_FlagOnlyAfterSuccessfulInit ==
    \A s \in BootSessions :
        /\ boot[s].db_initialized => boot[s].init_database = "True"
        /\ boot[s].init_database = "False" => boot[s].page # "served"

C25_Session ==
    /\ authenticated <=> user # 0
    /\ user # 0 => \E i \in DOMAIN users : users[i].id = user
C25_FailedLogin ==
    (login' # login /\ ~login'.returned)
        => UNCHANGED <<authenticated, user, last_recommendation_time,
                       pending_interactions, openai_api_key,
                       current_recommendations, users>>

\* C25: in every session state authenticated is True exactly when user is
\* the record of a stored user; init_session_state, successful and failed
\* logins and logouts keep it so, and a failed login_user changes neither the
\* session state nor a user row.
C25_AuthenticatedIffUser == []C25_Session /\ [][C25_FailedLogin]_vars

\* A login succeeded, the user logged out, and the login after it failed.
C25_Witness ==
    /\ login.called
    /\ ~login.returned
    /\ ~authenticated
    /\ \E i \in DOMAIN users : users[i].last_login # NoneValue

\* C26: the recommendations shown to the logged-in user were generated from
\* that user's own interaction history, whatever logins, logouts, views and
\* refreshes came before in the session.
C26_RecommendationsOfCurrentUser ==
    rec_tab.kind = "recommendations"
        => /\ authenticated
           /\ rec_tab.to = user
           /\ rec_tab.value.user_id = user

\* User 2 is shown recommendations in a session in which user 1 was shown
\* theirs before and left them in the cache.
C26_Witness ==
    /\ rec_tab.kind = "recommendations"
    /\ user = 2
    /\ current_recommendations.user_id = 2
    /\ \E k \in DOMAIN rec_cache : k.user_id = 1

\* C27: after logout_user the session holds nothing of the user who logged
\* out: the API key and the pending list are cleared, so the next user of the
\* session cannot use the key and no queued entry carries another user's id.
C27_LogoutClearsSession ==
    /\ ~authenticated => openai_api_key = "None" /\ pending_interactions = <<>>
    /\ authenticated =>
          \A i \in DOMAIN pending_interactions : pending_interactions[i].user_id = user

\* C30: the number of filter_category rows is the number of category
\* selections made by a logged-in user, however many times the script ran
\* while a selection stayed in effect.
C30_OneRowPerSelection ==
    Cardinality({i \in DOMAIN interactions :
                    interactions[i].interaction_type = "filter_category"})
        = widgets.selections

C28_Unique ==
    /\ \A i, j \in DOMAIN users :
          (users[i].email = users[j].email \/ users[i].username = users[j].username)
              => i = j
    /\ \A s, t \in RegSessions :
          (/\ s # t
           /\ registration[s].pc = "returned" /\ registration[s].returned
           /\ registration[t].pc = "returned" /\ registration[t].returned)
              => /\ registration[s].email # registration[t].email
                 /\ registration[s].username # registration[t].username
C28_Loser ==
    \A s \in RegSessions :
        (/\ registration[s].pc # "returned"
         /\ registration'[s].pc = "returned"
         /\ ~registration'[s].returned)
            => users' = users

\* C28: however the register_user calls of two sessions interleave, no two
\* rows of users share an email or a username, two calls for the same email
\* or username never both return True, and a call that returns False leaves
\* no row.
C28_ConcurrentRegistrationUnique == []C28_Unique /\ [][C28_Loser]_vars

\* Two calls raced: both passed the two queries, one committed and returned
\* True, the commit of the other was rejected.
C28_Witness ==
    \E s, t \in RegSessions :
        /\ s # t
        /\ registration[s].pc = "returned" /\ registration[s].returned
        /\ registration[t].pc = "returned" /\ ~registration[t].returned
        /\ registration[t].message = "Registration error: IntegrityError"
        /\ \/ registration[s].email = registration[t].email
           \/ registration[s].username = registration[t].username
        /\ \E i \in DOMAIN users : users[i].email = registration[s].email

====
